---- MODULE Spec2Model ----
(***************************************************************************)
(* Helwa-Platform chart pipeline.                                          *)
(*                                                                         *)
(*   src/zaincandle/lightweight_dashboard_generator.py                     *)
(*       LightweightDashboardGenerator, generate_all_stock_dashboards      *)
(*   src/volumeprofiletemplate/chart_generator.py                          *)
(*       ChartGenerator                                                    *)
(*                                                                         *)
(* The program is single-threaded.  One behaviour of the model is one call *)
(* of one entry point; Init chooses the entry point, its arguments and the *)
(* database it runs against, and every database call is one step whose     *)
(* outcome (rows, no rows, an exception) the environment chooses.          *)
(*                                                                         *)
(* Time is counted in ticks of one minute.  The tick is also the clock's   *)
(* resolution (Python: one microsecond), so datetime arithmetic that       *)
(* rounds to the resolution rounds to the tick.                            *)
(***************************************************************************)
EXTENDS Integers, Sequences, FiniteSets, TLC

(***************************************************************************)
(* Bounds of the model                                                     *)
(***************************************************************************)
\* How many of the configured timeframes (in dictionary order) one
\* dashboard iterates over.
MaxTF == 2
\* How many database calls may raise in one behaviour.
MaxFailures == 2
\* The largest zone table enumerated for _fetch_zones (above LIMIT 30).
MaxZoneRows == 32
\* The largest number of price levels enumerated for
\* _fetch_volume_profile (above LIMIT 50).
MaxLevels == 52

(***************************************************************************)
(* Generic helpers                                                         *)
(***************************************************************************)
\* SQL NULL / Python None in a numeric column.  Every modelled number of
\* the database is >= 0, so the sentinel never collides with a value.
NULL == 0 - 1

IsNull(x) == x = NULL

Min(a, b) == IF a <= b THEN a ELSE b

Max(a, b) == IF a >= b THEN a ELSE b

Range(s) == {s[i] : i \in 1..Len(s)}

MinutesPerDay == 24 * 60

\* The sequence of the elements of S in the order Precedes, a strict total
\* order on S.
SortRows(S, Precedes(_, _)) ==
    [i \in 1..Cardinality(S) |->
        CHOOSE r \in S : Cardinality({q \in S : Precedes(q, r)}) = i - 1]

\* The first n elements of s (SQL LIMIT n).
Limit(s, n) == SubSeq(s, 1, Min(n, Len(s)))

RECURSIVE SetSum(_, _)
\* The sum of f[r] over r in S.
SetSum(S, f) ==
    IF S = {} THEN 0
    ELSE LET r == CHOOSE x \in S : TRUE
         IN  f[r] + SetSum(S \ {r}, f)

SetMax(S) == CHOOSE x \in S : \A y \in S : y <= x

SetMin(S) == CHOOSE x \in S : \A y \in S : x <= y

\* datetime.date(): the calendar day of a tick.
DateOf(t) == t \div MinutesPerDay

(***************************************************************************)
(* __init__: the timeframe configuration (lines 52-131)                    *)
(***************************************************************************)
Markets == {"stocks", "crypto"}

\* dict insertion order of self.timeframes
TimeframeOrder(market) ==
    IF market = "stocks"
    THEN << "2min", "3min", "5min", "6min", "10min", "13min", "15min",
            "26min", "30min", "39min", "65min", "78min", "130min",
            "195min", "390min", "5day", "22day", "65day" >>
    ELSE << "5min", "15min", "30min", "1hour", "2hour", "4hour", "8hour",
            "1day", "7day", "31day", "93day" >>

\* self.timeframes: label -> minutes
Timeframes(market) ==
    IF market = "stocks"
    THEN "2min" :> 2 @@ "3min" :> 3 @@ "5min" :> 5 @@ "6min" :> 6 @@
         "10min" :> 10 @@ "13min" :> 13 @@ "15min" :> 15 @@ "26min" :> 26 @@
         "30min" :> 30 @@ "39min" :> 39 @@ "65min" :> 65 @@ "78min" :> 78 @@
         "130min" :> 130 @@ "195min" :> 195 @@ "390min" :> 390 @@
         "5day" :> 1950 @@ "22day" :> 8580 @@ "65day" :> 25350
    ELSE "5min" :> 5 @@ "15min" :> 15 @@ "30min" :> 30 @@ "1hour" :> 60 @@
         "2hour" :> 120 @@ "4hour" :> 240 @@ "8hour" :> 480 @@
         "1day" :> 1440 @@ "7day" :> 10080 @@ "31day" :> 44640 @@
         "93day" :> 133920

\* self.lookback_days_map: label -> days
LookbackDaysMap(market) ==
    IF market = "stocks"
    THEN "2min" :> 5 @@ "3min" :> 7 @@ "5min" :> 14 @@ "6min" :> 14 @@
         "10min" :> 30 @@ "13min" :> 30 @@ "15min" :> 60 @@ "26min" :> 90 @@
         "30min" :> 90 @@ "39min" :> 180 @@ "65min" :> 180 @@ "78min" :> 180 @@
         "130min" :> 365 @@ "195min" :> 365 @@ "390min" :> 730 @@
         "5day" :> 730 @@ "22day" :> 1095 @@ "65day" :> 1825
    ELSE "5min" :> 7 @@ "15min" :> 14 @@ "30min" :> 30 @@ "1hour" :> 60 @@
         "2hour" :> 90 @@ "4hour" :> 180 @@ "8hour" :> 365 @@
         "1day" :> 730 @@ "7day" :> 1095 @@ "31day" :> 1825 @@
         "93day" :> 2555

\* The timeframes one modelled dashboard iterates over: the first MaxTF
\* entries of self.timeframes.items().
LoopTimeframes(market) ==
    SubSeq(TimeframeOrder(market), 1, Min(MaxTF, Len(TimeframeOrder(market))))

\* matview_map.get(timeframe_minutes): the view name, "" when there is none
\* (lines 290-320).
MatviewMap ==
    2 :> "candles_2m" @@ 3 :> "candles_3m" @@ 5 :> "candles_5m" @@
    6 :> "candles_6m" @@ 10 :> "candles_10m" @@ 13 :> "candles_13m" @@
    15 :> "candles_15m" @@ 26 :> "candles_26m" @@ 30 :> "candles_30m" @@
    39 :> "candles_39m" @@ 65 :> "candles_65m" @@ 78 :> "candles_78m" @@
    130 :> "candles_130m" @@ 195 :> "candles_195m" @@ 390 :> "candles_390m" @@
    1950 :> "candles_5d" @@ 8580 :> "candles_22d" @@ 25350 :> "candles_65d" @@
    60 :> "candles_1h" @@ 120 :> "candles_2h" @@ 240 :> "candles_4h" @@
    480 :> "candles_8h" @@ 1440 :> "candles_1d" @@ 10080 :> "candles_7d" @@
    44640 :> "candles_31d" @@ 133920 :> "candles_93d"

MatviewName(timeframe_minutes) ==
    IF timeframe_minutes \in DOMAIN MatviewMap
    THEN MatviewMap[timeframe_minutes]
    ELSE ""

(***************************************************************************)
(* The database: what the SQL of the fetchers evaluates to                 *)
(*                                                                         *)
(* A tick t is minute t since 2000-01-03 00:00, the origin of time_bucket. *)
(* A database db is a record of tables, each a set of rows with a physical *)
(* row number rid.  db.peers is the order the engine leaves rows in that   *)
(* ORDER BY does not order ("asc" or "desc" by rid): SQL does not fix it.  *)
(***************************************************************************)
\* EXTRACT(EPOCH FROM t)::bigint: seconds since 1970-01-01 of a tick.
EpochOf(t) == (t + 10959 * MinutesPerDay) * 60

PeerBefore(db, a, b) ==
    IF db.peers = "asc" THEN a.rid < b.rid ELSE a.rid > b.rid

\* SELECT id FROM <schema>.symbols WHERE symbol = %s (lines 192-196):
\* the id, 0 when there is no row.
SymbolId(db, symbol) ==
    IF symbol \in DOMAIN db.symbols THEN db.symbols[symbol] ELSE 0

\* SELECT EXISTS (SELECT 1 FROM pg_matviews ...) (lines 326-335)
MatviewExists(db, matview_name) == matview_name \in db.matviews

\* ORDER BY bucket ASC / ORDER BY timestamp ASC
\* ORDER BY ... DESC: the latest row first.
CandleFollows(db, a, b) ==
    \/ a.timestamp > b.timestamp
    \/ a.timestamp = b.timestamp /\ PeerBefore(db, a, b)

\* ORDER BY bucket ASC / ORDER BY timestamp ASC (lines 350, 369)
CandlePrecedes(db, a, b) ==
    \/ a.timestamp < b.timestamp
    \/ a.timestamp = b.timestamp /\ PeerBefore(db, a, b)

CandleRow(time, r) == << time, r.open, r.high, r.low, r.close, r.volume >>

\* The materialized-view query (lines 342-352).
ViewQueryRows(db, matview_name, symbol_id, start_date, end_date) ==
    LET hit == {r \in db.candles :
                   /\ r.source = matview_name
                   /\ r.symbol_id = symbol_id
                   /\ r.timestamp >= start_date
                   /\ r.timestamp <= end_date}
        ord == SortRows(hit, LAMBDA a, b : CandlePrecedes(db, a, b))
    IN  [i \in 1..Len(ord) |-> CandleRow(EpochOf(ord[i].timestamp), ord[i])]

\* The minute of the day, 0..1439.
MinuteOfDay(t) == t % MinutesPerDay

\* EXTRACT(MINUTE FROM timestamp)
MinuteOfHour(t) == t % 60

\* The stride-sampling query on minute_aggregates (lines 360-371).
StrideQueryRows(db, symbol_id, start_date, end_date, timeframe_minutes) ==
    LET hit == {r \in db.candles :
                   /\ r.source = "minute_aggregates"
                   /\ r.symbol_id = symbol_id
                   /\ r.timestamp >= start_date
                   /\ r.timestamp <= end_date
                   /\ MinuteOfHour(r.timestamp) % timeframe_minutes = 0}
        ord == SortRows(hit, LAMBDA a, b : CandlePrecedes(db, a, b))
    IN  [i \in 1..Len(ord) |-> CandleRow(EpochOf(ord[i].timestamp), ord[i])]

\* time_bucket('<w> minutes', t)
TimeBucket(w, t) == t - (t % w)

NonNull(S) == {x \in S : ~IsNull(x)}

\* MAX / MIN / SUM skip NULLs and are NULL when nothing is left.
SqlMax(S) == IF NonNull(S) = {} THEN NULL ELSE SetMax(NonNull(S))

SqlMin(S) == IF NonNull(S) = {} THEN NULL ELSE SetMin(NonNull(S))

SqlSum(rows) ==
    LET some == {r \in rows : ~IsNull(r.volume)}
    IN  IF some = {} THEN NULL
        ELSE SetSum(some, [r \in some |-> r.volume])

\* The bucketed-aggregation query on minute_aggregates (lines 374-393).
BucketQueryRows(db, symbol_id, start_date, end_date, timeframe_minutes) ==
    LET hit == {r \in db.candles :
                   /\ r.source = "minute_aggregates"
                   /\ r.symbol_id = symbol_id
                   /\ r.timestamp >= start_date
                   /\ r.timestamp <= end_date}
        buckets == {TimeBucket(timeframe_minutes, r.timestamp) : r \in hit}
        In(b) == {r \in hit : TimeBucket(timeframe_minutes, r.timestamp) = b}
        \* array_agg(open ORDER BY timestamp)[1]
        First(b) == CHOOSE r \in In(b) :
                       \A q \in In(b) : q = r \/ CandlePrecedes(db, r, q)
        \* array_agg(close ORDER BY timestamp DESC)[1]
        Last(b) == CHOOSE r \in In(b) :
                       \A q \in In(b) :
                           \/ q = r
                           \/ q.timestamp < r.timestamp
                           \/ q.timestamp = r.timestamp /\ PeerBefore(db, r, q)
        ord == [i \in 1..Cardinality(buckets) |->
                   CHOOSE b \in buckets :
                       Cardinality({c \in buckets : c < b}) = i - 1]
    IN  [i \in 1..Len(ord) |->
            << EpochOf(ord[i]),
               First(ord[i]).open,
               SqlMax({r.high : r \in In(ord[i])}),
               SqlMin({r.low : r \in In(ord[i])}),
               Last(ord[i]).close,
               SqlSum(In(ord[i])) >>]

\* SELECT id FROM shared.timeframes WHERE label = %s (lines 419-423):
\* the id, 0 when there is no row.
TimeframeId(db, timeframe) ==
    IF timeframe \in DOMAIN db.timeframes THEN db.timeframes[timeframe] ELSE 0

ZoneLimit == 30

\* COALESCE(zone_score, 0.0) as zone_score
ZoneScoreOut(r) == IF IsNull(r.zone_score) THEN 0 ELSE r.zone_score

\* EXTRACT(EPOCH FROM start_time)::bigint as start_time
ZoneStartOut(r) == IF IsNull(r.start_time) THEN NULL ELSE EpochOf(r.start_time)

ZoneEndOut(r) == IF IsNull(r.end_time) THEN NULL ELSE EpochOf(r.end_time)

\* ORDER BY the stored score, DESC: a NULL score sorts first.
StoredScorePrecedes(db, a, b) ==
    LET na == IsNull(a.zone_score)
        nb == IsNull(b.zone_score)
    IN  \/ na /\ ~nb
        \/ ~na /\ ~nb /\ a.zone_score > b.zone_score
        \/ a.zone_score = b.zone_score /\ a.start_time > b.start_time
        \/ a.zone_score = b.zone_score /\ a.start_time = b.start_time
             /\ PeerBefore(db, a, b)

\* ORDER BY zone_score DESC, start_time DESC (line 445).  A simple name in
\* ORDER BY that is also an output column names the output column, so the
\* keys are the COALESCEd score and the epoch start; DESC puts NULL first.
ZonePrecedes(db, a, b) ==
    LET sa == ZoneScoreOut(a)
        sb == ZoneScoreOut(b)
        ta == ZoneStartOut(a)
        tb == ZoneStartOut(b)
        startBefore == IF IsNull(ta) THEN ~IsNull(tb)
                       ELSE ~IsNull(tb) /\ ta > tb
    IN  \/ sa > sb
        \/ sa = sb /\ startBefore
        \/ sa = sb /\ ta = tb /\ PeerBefore(db, a, b)

\* The zones query (lines 432-449): the rows cursor.fetchall() returns.
ZonesQueryRows(db, symbol_id, timeframe_id) ==
    LET hit == {r \in db.zones :
                   r.symbol_id = symbol_id /\ r.timeframe_id = timeframe_id}
        ord == Limit(SortRows(hit, LAMBDA a, b : ZonePrecedes(db, a, b)),
                     ZoneLimit)
    IN  [i \in 1..Len(ord) |->
            << ord[i].zone_id, ord[i].zone_type, ord[i].bottom_price,
               ord[i].top_price, ZoneStartOut(ord[i]), ZoneEndOut(ord[i]),
               ZoneScoreOut(ord[i]), ord[i].is_broken >>]

VolumeLimit == 50

\* The date column and the bounds of the volume-profile query
\* (lines 488-495).
VolumeParams(schema, start_date, end_date) ==
    IF schema = "stocks"
    THEN [date_column |-> "period_start", unit |-> "timestamp",
          lo |-> start_date, hi |-> end_date]
    ELSE [date_column |-> "date", unit |-> "date",
          lo |-> DateOf(start_date), hi |-> DateOf(end_date)]

\* <date_column> >= lo AND <date_column> <= hi.  A date compared with a
\* timestamp is that day's midnight.
VolumeInRange(r, q) ==
    LET v  == IF q.date_column = "period_start" THEN r.period_start
              ELSE r.date
        at == IF q.date_column = "date" /\ q.unit = "timestamp"
              THEN v * MinutesPerDay ELSE v
    IN  at >= q.lo /\ at <= q.hi

\* BOOL_OR(node_type = t): 1 true, 0 false, NULL when every node_type is
\* NULL.
BoolOr(rows, t) ==
    IF \E r \in rows : r.node_type = t THEN 1
    ELSE IF \A r \in rows : r.node_type = "NULL" THEN NULL
    ELSE 0

\* ORDER BY total_volume DESC: NULL sorts first; equal totals are peers.
VolumePrecedes(db, a, b) ==
    \/ IsNull(a.total) /\ ~IsNull(b.total)
    \/ ~IsNull(a.total) /\ ~IsNull(b.total) /\ a.total > b.total
    \/ a.total = b.total /\ PeerBefore(db, a, b)

\* The volume-profile query (lines 497-512): the rows cursor.fetchall()
\* returns.
VolumeQueryRows(db, symbol_id, q) ==
    LET hit == {r \in db.volume_profile :
                   r.symbol_id = symbol_id /\ VolumeInRange(r, q)}
        At(p) == {r \in hit : r.price_level = p}
        groups == {[rid |-> p, price |-> p, total |-> SqlSum(At(p)),
                    hvn |-> BoolOr(At(p), "HVN"),
                    lvn |-> BoolOr(At(p), "LVN")] :
                      p \in {r.price_level : r \in hit}}
        ord == Limit(SortRows(groups, LAMBDA a, b : VolumePrecedes(db, a, b)),
                     VolumeLimit)
    IN  [i \in 1..Len(ord) |->
            << ord[i].price, ord[i].total, ord[i].hvn, ord[i].lvn >>]

(***************************************************************************)
(* Python: rows to dictionaries.  float(None) raises TypeError.            *)
(***************************************************************************)
\* x if x else 0.0 (a NULL and a zero both become 0.0)
OrZero(x) == IF IsNull(x) \/ x = 0 THEN 0 ELSE x

\* The loop at lines 398-406 raises when a price is None.
CandlesRaise(rows) ==
    \E i \in 1..Len(rows) : \E k \in 2..5 : IsNull(rows[i][k])

CandleDicts(rows) ==
    [i \in 1..Len(rows) |->
        [time |-> rows[i][1], open |-> rows[i][2], high |-> rows[i][3],
         low |-> rows[i][4], close |-> rows[i][5],
         volume |-> OrZero(rows[i][6])]]

\* The loop at lines 452-466 raises when bottom_price or top_price is None.
ZonesRaise(rows) ==
    \E i \in 1..Len(rows) : IsNull(rows[i][3]) \/ IsNull(rows[i][4])

ZoneDicts(rows, timeframe) ==
    [i \in 1..Len(rows) |->
        [zone_id |-> rows[i][1], zone_type |-> rows[i][2],
         bottom_price |-> rows[i][3], top_price |-> rows[i][4],
         start_time |-> rows[i][5], end_time |-> rows[i][6],
         zone_score |-> rows[i][7], is_broken |-> rows[i][8],
         timeframe |-> timeframe]]

\* The loop at lines 515-521 raises when price_level is None.
VolumeRaise(rows) == \E i \in 1..Len(rows) : IsNull(rows[i][1])

VolumeDicts(rows) ==
    [i \in 1..Len(rows) |->
        [price |-> rows[i][1], dollar_volume |-> OrZero(rows[i][2]),
         is_hvn |-> IF IsNull(rows[i][3]) THEN 0 ELSE rows[i][3],
         is_lvn |-> IF IsNull(rows[i][4]) THEN 0 ELSE rows[i][4]]]

(***************************************************************************)
(* State                                                                   *)
(***************************************************************************)
VARIABLES
    call,            \* the entry point called and its arguments
    db,              \* the database the call runs against
    now,             \* the clock: datetime.utcnow() / datetime.now()
    self,            \* the generator object's attributes
    pc,              \* where the call is
    failures,        \* how many calls have raised so far
    conns,           \* every connection get_connection() has returned
    conn,            \* local conn of _fetch_dashboard_data (0: None)
    cursor,          \* local cursor: the connection it is on (0: None)
    queries,         \* the queries executed in this call, in order
    symbol_id,       \* local symbol_id (0: not resolved)
    tfIdx,           \* position of the loop over self.timeframes.items()
    cur,             \* locals of the running timeframe and its helpers
    dashboard_data,  \* dashboard_data['timeframes'], or the call's None
    io,              \* files written and uploads made by this call
    result,          \* what the entry point returned
    batch            \* locals of generate_all_stock_dashboards

vars == << call, db, now, self, pc, failures, conns, conn, cursor, queries,
           symbol_id, tfIdx, cur, dashboard_data, io, result, batch >>

\* The clock of every modelled call: day 3000, 14:30.
Clock == 3000 * MinutesPerDay + 870

NoArgs ==
    [kind |-> "none", symbol |-> "", lookback_days |-> 0,
     timeframe |-> "", timeframe_minutes |-> 0,
     start_date |-> 0, end_date |-> 0,
     zone_type |-> "", zone_top |-> 0, zone_bottom |-> 0,
     current_price |-> 0, skip_upload |-> FALSE, rasterizer |-> FALSE]

\* A constructor that builds the blob manager whatever skip_upload says.
UploadingGenerator(market_type, skip_upload) ==
    [market_type |-> market_type,
     schema |-> market_type,
     skip_upload |-> skip_upload,
     blob_manager |-> "AzureBlobManager",
     timeframes |-> Timeframes(market_type),
     lookback_days_map |-> LookbackDaysMap(market_type)]

\* LightweightDashboardGenerator.__init__ (lines 36-131)
NewGenerator(market_type, skip_upload) ==
    [market_type |-> market_type,
     schema |-> market_type,
     skip_upload |-> skip_upload,
     blob_manager |-> IF ~skip_upload THEN "AzureBlobManager" ELSE "None",
     timeframes |-> Timeframes(market_type),
     lookback_days_map |-> LookbackDaysMap(market_type)]

NoGenerator ==
    [market_type |-> "stocks", schema |-> "stocks", skip_upload |-> TRUE,
     blob_manager |-> "None", timeframes |-> << >>,
     lookback_days_map |-> << >>]

\* A connection as get_connection() returns it.
NewConn ==
    [open |-> TRUE, cursor |-> "none", failed |-> FALSE,
     rollbacks |-> 0, closes |-> 0, cursor_closes |-> 0]

\* conn.cursor()
OpenCursor(cs, k) == [cs EXCEPT ![k].cursor = "open"]

\* if cursor: cursor.close()
CloseCursor(cs, k) ==
    IF k = 0 THEN cs
    ELSE [cs EXCEPT ![k].cursor = "closed", ![k].cursor_closes = @ + 1]

\* if conn: conn.close()
CloseConn(cs, k) ==
    IF k = 0 THEN cs
    ELSE [cs EXCEPT ![k].open = FALSE, ![k].closes = @ + 1]

\* if conn: conn.rollback()
Rollback(cs, k) ==
    IF k = 0 THEN cs ELSE [cs EXCEPT ![k].rollbacks = @ + 1]

\* A query raised on the cursor of connection k.
MarkFailed(cs, k) == IF k = 0 THEN cs ELSE [cs EXCEPT ![k].failed = TRUE]

NoCur ==
    [candles |-> << >>, zones |-> << >>, volume_profile |-> << >>,
     use_matview |-> FALSE, timeframe_id |-> 0, propagated |-> FALSE]

NoData == [none |-> TRUE, timeframes |-> << >>]

\* None as a location or a path.
NoUrl == << >>

\* What the call has written and uploaded; penetration is the penetration
\* percentage _generate_html_chart computed, as a fraction << n, d >>.
NoIo ==
    [files |-> {}, uploads |-> << >>, rendered |-> FALSE,
     penetration |-> << >>]

\* What the entry point gave its caller: a pair (url, flag) from
\* generate_dashboard, a pair (url, png) from the chart generators, or an
\* exception.
NoResult ==
    [returned |-> FALSE, raised |-> FALSE, url |-> NoUrl, png |-> NoUrl,
     flag |-> FALSE]

\* results = {}, conn = None, cursor = None (lines 582-584); listing is the
\* connection the symbols are listed on, once it is acquired, and returns
\* is what each generate_dashboard call of the loop returned.
NoBatch ==
    [symbols |-> << >>, idx |-> 0, attempted |-> << >>, results |-> << >>,
     conn |-> FALSE, cursor |-> FALSE, listing |-> << >>,
     constructed |-> FALSE, returned |-> FALSE, returns |-> << >>]

\* The outcomes the environment may give a call that can raise.
Outcomes == {"ok"} \cup (IF failures < MaxFailures THEN {"raise"} ELSE {})

(***************************************************************************)
(* The three fetch helpers.  Inside _fetch_dashboard_data their arguments  *)
(* come from the loop (lines 217-232); called alone they come from call.   *)
(***************************************************************************)
InDashboard == call.kind \in {"dashboard", "batch"}

TfLabel ==
    IF InDashboard THEN LoopTimeframes(self.market_type)[tfIdx]
    ELSE call.timeframe

TfMinutes ==
    IF InDashboard THEN self.timeframes[TfLabel] ELSE call.timeframe_minutes

\* What a dict.pop(tf_name, default) would leave of the map.
LookbackPop(map, tf_name) ==
    [l \in DOMAIN map \ {tf_name} |-> map[l]]

\* What self.lookback_days_map.get(tf_name, lookback_days) leaves of the
\* map at the head of an iteration of the loop (line 222): all of it.
LookbackGet(map, tf_name) == map

\* A lookup that takes the caller's lookback_days for every timeframe.
CallerLookbackDays(tf_name) == call.lookback_days

\* self.lookback_days_map.get(tf_name, lookback_days) (line 222)
TfLookbackDays(tf_name) ==
    IF tf_name \in DOMAIN self.lookback_days_map
    THEN self.lookback_days_map[tf_name]
    ELSE call.lookback_days

\* end_date = datetime.utcnow() (line 208)
EndDate == IF InDashboard THEN now ELSE call.end_date

\* start_date = end_date - timedelta(days=tf_lookback_days) (line 223)
StartDate ==
    IF InDashboard THEN now - TfLookbackDays(TfLabel) * MinutesPerDay
    ELSE call.start_date

Query(kind, target, lo, hi, column, unit, outcome) ==
    [kind |-> kind, tf |-> tfIdx, target |-> target, lo |-> lo, hi |-> hi,
     column |-> column, unit |-> unit, conn |-> cursor,
     ok |-> outcome = "ok",
     on_failed |-> cursor # 0 /\ conns[cursor].failed]

\* What cursor.execute() leaves behind: the query is logged, and when it
\* raised the connection has a failed query on it.
Executed(q, outcome) ==
    /\ queries' = Append(queries, q)
    /\ conns' = IF outcome = "ok" THEN conns ELSE MarkFailed(conns, cursor)
    /\ failures' = IF outcome = "ok" THEN failures ELSE failures + 1

\* A handler that lets the error out of _fetch_candles.
CandlesReraise == [rows |-> << >>, propagated |-> TRUE]

\* except Exception: return [] in _fetch_candles (lines 411-413)
CandlesExcept == [rows |-> << >>, propagated |-> FALSE]

\* except Exception: return [] in _fetch_zones (lines 474-476)
ZonesExcept == [rows |-> << >>, propagated |-> FALSE]

\* except Exception: return [] in _fetch_volume_profile (lines 526-528)
VolumeExcept == [rows |-> << >>, propagated |-> FALSE]

\* Where the caller goes on after a helper: in the dashboard loop to the
\* next statement of the try block, or to its handler when the helper
\* raised; a helper called alone has returned.
After(propagated, next) ==
    IF ~InDashboard THEN "done"
    ELSE IF propagated THEN "tf_end" ELSE next

\* _fetch_candles, lines 320-338: the view name and the existence probe.
CandlesProbe ==
    /\ pc = "candles_probe"
    /\ LET matview_name == MatviewName(TfMinutes)
       IN  IF matview_name = ""
           THEN /\ cur' = [cur EXCEPT !.use_matview = FALSE]
                /\ UNCHANGED << queries, conns, failures >>
           ELSE \E o \in Outcomes :
                   /\ Executed(Query("probe", matview_name, 0, 0, "", "", o), o)
                   /\ cur' = [cur EXCEPT !.use_matview =
                                 o = "ok" /\ MatviewExists(db, matview_name)]
    /\ pc' = "candles_query"
    /\ self' = IF InDashboard
               THEN [self EXCEPT !.lookback_days_map =
                        LookbackGet(@, TfLabel)]
               ELSE self
    /\ UNCHANGED << call, db, now, conn, cursor, symbol_id, tfIdx,
                    dashboard_data, io, result, batch >>

\* A choice of source that aggregates the 15-minute timeframe.
SelectSourceBelow15(use_matview, timeframe_minutes) ==
    IF use_matview THEN "view"
    ELSE IF timeframe_minutes < 15 THEN "stride" ELSE "bucket"

\* The source _fetch_candles queries (lines 340, 358).
SelectSource(use_matview, timeframe_minutes) ==
    IF use_matview THEN "view"
    ELSE IF timeframe_minutes <= 15 THEN "stride" ELSE "bucket"

\* The table or view the candle query reads.
CandleTarget(source, timeframe_minutes) ==
    IF source = "view" THEN MatviewName(timeframe_minutes)
    ELSE "minute_aggregates"

\* The bounds of the candle query: start_date and end_date as passed
\* (lines 352, 371, 392).
CandleBounds(start_date, end_date) == [lo |-> start_date, hi |-> end_date]

CandleQueryRows(source, symbol, bounds, timeframe_minutes) ==
    IF source = "view"
    THEN ViewQueryRows(db, MatviewName(timeframe_minutes), symbol,
                       bounds.lo, bounds.hi)
    ELSE IF source = "stride"
    THEN StrideQueryRows(db, symbol, bounds.lo, bounds.hi, timeframe_minutes)
    ELSE BucketQueryRows(db, symbol, bounds.lo, bounds.hi, timeframe_minutes)

\* _fetch_candles, lines 340-413: the query and the conversion.
CandlesQuery ==
    /\ pc = "candles_query"
    /\ \E o \in Outcomes :
         LET source == SelectSource(cur.use_matview, TfMinutes)
             bounds == CandleBounds(StartDate, EndDate)
             rows == CandleQueryRows(source, symbol_id, bounds, TfMinutes)
             ret == IF o = "raise" \/ CandlesRaise(rows) THEN CandlesExcept
                    ELSE [rows |-> CandleDicts(rows), propagated |-> FALSE]
         IN  /\ Executed(Query(source, CandleTarget(source, TfMinutes),
                               bounds.lo, bounds.hi, "", "", o), o)
             /\ cur' = [cur EXCEPT !.candles = ret.rows,
                                   !.propagated = ret.propagated]
             /\ pc' = After(ret.propagated, "zones_lookup")
    /\ UNCHANGED << call, db, now, self, conn, cursor, symbol_id, tfIdx,
                    dashboard_data, io, result, batch >>

\* _fetch_zones, lines 417-428: the timeframe label's id.
ZonesLookup ==
    /\ pc = "zones_lookup"
    /\ \E o \in Outcomes :
         LET id == TimeframeId(db, TfLabel)
             ret == IF o = "raise" THEN ZonesExcept
                    ELSE [rows |-> << >>, propagated |-> FALSE]
         IN  /\ Executed(Query("timeframe", TfLabel, 0, 0, "", "", o), o)
             /\ cur' = [cur EXCEPT !.timeframe_id = IF o = "ok" THEN id ELSE 0,
                                   !.zones = ret.rows,
                                   !.propagated = ret.propagated]
             /\ pc' = IF o = "ok" /\ id # 0 THEN "zones_query"
                      ELSE After(ret.propagated, "volume")
    /\ UNCHANGED << call, db, now, self, conn, cursor, symbol_id, tfIdx,
                    dashboard_data, io, result, batch >>

\* _fetch_zones, lines 431-476: the zones query and the conversion.
ZonesQuery ==
    /\ pc = "zones_query"
    /\ \E o \in Outcomes :
         LET rows == ZonesQueryRows(db, symbol_id, cur.timeframe_id)
             ret == IF o = "raise" \/ ZonesRaise(rows) THEN ZonesExcept
                    ELSE [rows |-> ZoneDicts(rows, TfLabel),
                          propagated |-> FALSE]
         IN  /\ Executed(Query("zones", "zones", 0, 0, "", "", o), o)
             /\ cur' = [cur EXCEPT !.zones = ret.rows,
                                   !.propagated = ret.propagated]
             /\ pc' = After(ret.propagated, "volume")
    /\ UNCHANGED << call, db, now, self, conn, cursor, symbol_id, tfIdx,
                    dashboard_data, io, result, batch >>

\* _fetch_volume_profile, lines 486-528.
VolumeQuery ==
    /\ pc = "volume"
    /\ \E o \in Outcomes :
         LET q == VolumeParams(self.schema, StartDate, EndDate)
             rows == VolumeQueryRows(db, symbol_id, q)
             ret == IF o = "raise" \/ VolumeRaise(rows) THEN VolumeExcept
                    ELSE [rows |-> VolumeDicts(rows), propagated |-> FALSE]
         IN  /\ Executed(Query("volume", "volume_profile", q.lo, q.hi,
                               q.date_column, q.unit, o), o)
             /\ cur' = [cur EXCEPT !.volume_profile = ret.rows,
                                   !.propagated = ret.propagated]
             /\ pc' = After(ret.propagated, "tf_end")
    /\ UNCHANGED << call, db, now, self, conn, cursor, symbol_id, tfIdx,
                    dashboard_data, io, result, batch >>

(***************************************************************************)
(* LightweightDashboardGenerator._fetch_dashboard_data (lines 182-277)     *)
(***************************************************************************)
\* A handler that rolls back and closes the cursor only.
CursorOnlyCleanup(cs, k, c) == CloseCursor(Rollback(cs, k), c)

\* The handler of the outer try (lines 268-277): roll back, close, None.
FatalCleanup(cs, k, c) == CloseConn(CloseCursor(Rollback(cs, k), c), k)

\* conn = get_connection() (line 188)
Connect ==
    /\ pc = "connect"
    /\ \E o \in Outcomes :
         IF o = "ok"
         THEN /\ conns' = Append(conns, NewConn)
              /\ conn' = Len(conns) + 1
              /\ pc' = "open_cursor"
              /\ UNCHANGED << failures, dashboard_data >>
         ELSE /\ conns' = FatalCleanup(conns, conn, cursor)
              /\ failures' = failures + 1
              /\ dashboard_data' = NoData
              /\ pc' = "fetched"
              /\ UNCHANGED conn
    /\ UNCHANGED << call, db, now, self, cursor, queries, symbol_id, tfIdx,
                    cur, io, result, batch >>

\* cursor = conn.cursor() (line 189)
ConnCursor ==
    /\ pc = "open_cursor"
    /\ \E o \in Outcomes :
         IF o = "ok"
         THEN /\ conns' = OpenCursor(conns, conn)
              /\ cursor' = conn
              /\ pc' = "symbol"
              /\ UNCHANGED << failures, dashboard_data >>
         ELSE /\ conns' = FatalCleanup(conns, conn, cursor)
              /\ failures' = failures + 1
              /\ dashboard_data' = NoData
              /\ pc' = "fetched"
              /\ UNCHANGED cursor
    /\ UNCHANGED << call, db, now, self, conn, queries, symbol_id, tfIdx,
                    cur, io, result, batch >>

\* The symbol lookup (lines 191-214).
SymbolQuery ==
    /\ pc = "symbol"
    /\ \E o \in Outcomes :
         LET id == SymbolId(db, call.symbol)
             q == Query("symbol", call.symbol, 0, 0, "", "", o)
         IN  /\ queries' = Append(queries, q)
             /\ IF o = "raise"
                THEN /\ conns' = FatalCleanup(MarkFailed(conns, cursor),
                                              conn, cursor)
                     /\ failures' = failures + 1
                     /\ dashboard_data' = NoData
                     /\ pc' = "fetched"
                     /\ UNCHANGED << symbol_id, tfIdx >>
                ELSE IF id = 0
                THEN /\ conns' = CloseConn(CloseCursor(conns, cursor), conn)
                     /\ dashboard_data' = NoData
                     /\ pc' = "fetched"
                     /\ UNCHANGED << failures, symbol_id, tfIdx >>
                ELSE /\ symbol_id' = id
                     /\ dashboard_data' = [none |-> FALSE, timeframes |-> << >>]
                     /\ tfIdx' = 1
                     /\ pc' = IF Len(LoopTimeframes(self.market_type)) = 0
                              THEN "close" ELSE "candles_probe"
                     /\ UNCHANGED << conns, failures >>
    /\ UNCHANGED << call, db, now, self, conn, cursor, cur, io, result,
                    batch >>

\* The bucket of a timeframe whose fetch raised (lines 253-257).
Placeholder == [candles |-> << >>, zones |-> << >>, volume_profile |-> << >>]

\* The bucket of a timeframe whose helpers returned (lines 234-238).
Bucket(c) ==
    [candles |-> c.candles, zones |-> c.zones,
     volume_profile |-> c.volume_profile]

\* The end of one iteration of the loop: the bucket is stored (lines
\* 234-238), or, when a helper raised, the handler at lines 240-258 rolls
\* back, replaces the connection and stores the placeholder.  An exception
\* in the handler reaches the outer handler (lines 268-277).
TfEnd ==
    /\ pc = "tf_end"
    /\ LET last == tfIdx >= Len(LoopTimeframes(self.market_type))
           stored(b) == [dashboard_data EXCEPT
                            !.timeframes = (TfLabel :> b) @@ @]
       IN  IF ~cur.propagated
           THEN /\ dashboard_data' = stored(Bucket(cur))
                /\ pc' = IF last THEN "close" ELSE "candles_probe"
                /\ UNCHANGED << conns, conn, cursor, failures >>
           ELSE \E h \in {"ok"} \cup
                          (IF failures < MaxFailures
                           THEN {"raise_connect", "raise_cursor"} ELSE {}) :
                  LET cs1 == CloseCursor(Rollback(conns, conn), cursor)
                      cs2 == Append(cs1, NewConn)
                      new == Len(cs2)
                  IN  IF h = "ok"
                      THEN /\ conns' = OpenCursor(cs2, new)
                           /\ conn' = new
                           /\ cursor' = new
                           /\ dashboard_data' = stored(Placeholder)
                           /\ pc' = IF last THEN "close" ELSE "candles_probe"
                           /\ UNCHANGED failures
                      ELSE IF h = "raise_connect"
                      THEN /\ conns' = FatalCleanup(cs1, conn, cursor)
                           /\ failures' = failures + 1
                           /\ dashboard_data' = NoData
                           /\ pc' = "fetched"
                           /\ UNCHANGED << conn, cursor >>
                      ELSE /\ conns' = FatalCleanup(cs2, new, cursor)
                           /\ conn' = new
                           /\ failures' = failures + 1
                           /\ dashboard_data' = NoData
                           /\ pc' = "fetched"
                           /\ UNCHANGED cursor
    /\ tfIdx' = tfIdx + 1
    /\ cur' = NoCur
    /\ UNCHANGED << call, db, now, self, queries, symbol_id, io, result,
                    batch >>

\* After the loop (lines 260-266): close both, return dashboard_data.
CloseAndReturn ==
    /\ pc = "close"
    /\ conns' = CloseConn(CloseCursor(conns, cursor), conn)
    /\ pc' = "fetched"
    /\ UNCHANGED << call, db, now, self, failures, conn, cursor, queries,
                    symbol_id, tfIdx, cur, dashboard_data, io, result, batch >>

(***************************************************************************)
(* LightweightDashboardGenerator.generate_dashboard (lines 148-180)        *)
(***************************************************************************)
\* f"{market_type}_{symbol.replace(':', '_').lower()}_dashboard.html"
Filename(market_type, symbol) == << market_type, symbol, "dashboard.html" >>

\* str(Path('data/dashboards') / filename)
LocalPath(filename) == << "data/dashboards" >> \o filename

\* What blob_manager.upload_html returns.
BlobUrl(filename) == << "trading-charts" >> \o filename

\* generate_dashboard returns to its caller.
Returned(url, flag) ==
    /\ result' = [returned |-> TRUE, raised |-> FALSE, url |-> url,
                  png |-> NoUrl, flag |-> flag]
    /\ pc' = IF call.kind = "batch" THEN "batch_record" ELSE "done"
    /\ batch' = IF call.kind = "batch"
                THEN [batch EXCEPT !.returns =
                         Append(@, [symbol |-> call.symbol, url |-> url])]
                ELSE batch

\* A handler that answers a failure with a location.
LocationResult == [url |-> << "trading-charts" >>, flag |-> TRUE]

\* except Exception: return None, False (lines 178-180)
FailureResult == [url |-> NoUrl, flag |-> FALSE]

\* A test that takes whatever the fetch returned for data.
AlwaysData(data) == FALSE

\* not dashboard_data (line 154): the fetch returned None.
NotData(data) == data.none

\* if not dashboard_data: return None, False (lines 154-156)
CheckData ==
    /\ pc = "fetched"
    /\ IF NotData(dashboard_data)
       THEN Returned(NoUrl, FALSE)
       ELSE pc' = "render" /\ UNCHANGED << result, batch >>
    /\ UNCHANGED << call, db, now, self, failures, conns, conn, cursor,
                    queries, symbol_id, tfIdx, cur, dashboard_data, io >>

\* html_content = self._render_html(dashboard_data) (lines 159, 530-553);
\* what it raises is caught at lines 178-180.
Render ==
    /\ pc = "render"
    /\ \E o \in Outcomes :
         IF o = "ok"
         THEN /\ io' = [io EXCEPT !.rendered = TRUE]
              /\ pc' = "publish"
              /\ UNCHANGED << failures, result, batch >>
         ELSE /\ failures' = failures + 1
              /\ Returned(FailureResult.url, FailureResult.flag)
              /\ UNCHANGED io
    /\ UNCHANGED << call, db, now, self, conns, conn, cursor, queries,
                    symbol_id, tfIdx, cur, dashboard_data >>

\* A flag that says a local save is not an upload.
NotUploadedFlag == FALSE

\* The flag returned with a location saved locally (line 170).
LocalFlag == TRUE

\* The flag returned with a location uploaded (line 176).
UploadFlag == TRUE

\* Save locally or upload (lines 161-176), failures caught at 178-180.
Publish ==
    /\ pc = "publish"
    /\ \E o \in Outcomes :
         LET filename == Filename(self.market_type, call.symbol)
         IN  /\ failures' = IF o = "ok" THEN failures ELSE failures + 1
             /\ IF self.skip_upload
                THEN /\ io' = IF o = "ok"
                              THEN [io EXCEPT !.files =
                                       @ \cup {LocalPath(filename)}]
                              ELSE io
                     /\ IF o = "ok"
                        THEN Returned(LocalPath(filename), LocalFlag)
                        ELSE Returned(FailureResult.url,
                                      FailureResult.flag)
                ELSE /\ io' = [io EXCEPT !.uploads =
                                  Append(@, [name |-> filename,
                                             ok |-> o = "ok"])]
                     /\ IF o = "ok"
                        THEN Returned(BlobUrl(filename), UploadFlag)
                        ELSE Returned(FailureResult.url,
                                      FailureResult.flag)
    /\ UNCHANGED << call, db, now, self, conns, conn, cursor, queries,
                    symbol_id, tfIdx, cur, dashboard_data >>

(***************************************************************************)
(* generate_all_stock_dashboards (lines 569-634)                           *)
(***************************************************************************)
\* Every ticker of the model, in ORDER BY symbol order.
SymbolOrder == << "AAPL", "MSFT", "ZZZZ" >>

\* SELECT DISTINCT symbol FROM stocks.symbols ORDER BY symbol
ListSymbols(d) == SelectSeq(SymbolOrder, LAMBDA x : x \in DOMAIN d.symbols)

\* A finally clause that closes whatever was acquired, released or not.
BatchFinallyAgain(b) ==
    [b EXCEPT !.listing = IF @ = << >> THEN @
                          ELSE CloseConn(CloseCursor(@, 1), 1),
              !.returned = TRUE]

\* finally: if cursor: cursor.close(); if conn: conn.close()
\* (lines 630-634), then the function returns results.
BatchFinally(b) ==
    LET l1 == IF b.cursor THEN CloseCursor(b.listing, 1) ELSE b.listing
        l2 == IF b.conn THEN CloseConn(l1, 1) ELSE l1
    IN  [b EXCEPT !.listing = l2, !.returned = TRUE]

\* conn = get_connection() (line 588)
BatchConnect ==
    /\ pc = "batch_connect"
    /\ \E o \in Outcomes :
         IF o = "ok"
         THEN /\ batch' = [batch EXCEPT !.conn = TRUE,
                                        !.listing = << NewConn >>]
              /\ pc' = "batch_cursor"
              /\ UNCHANGED failures
         ELSE /\ batch' = BatchFinally(batch)
              /\ failures' = failures + 1
              /\ pc' = "done"
    /\ UNCHANGED << call, db, now, self, conns, conn, cursor, queries,
                    symbol_id, tfIdx, cur, dashboard_data, io, result >>

\* cursor = conn.cursor() (line 589)
BatchCursor ==
    /\ pc = "batch_cursor"
    /\ \E o \in Outcomes :
         IF o = "ok"
         THEN /\ batch' = [batch EXCEPT !.cursor = TRUE,
                                        !.listing = OpenCursor(@, 1)]
              /\ pc' = "batch_list"
              /\ UNCHANGED failures
         ELSE /\ batch' = BatchFinally(batch)
              /\ failures' = failures + 1
              /\ pc' = "done"
    /\ UNCHANGED << call, db, now, self, conns, conn, cursor, queries,
                    symbol_id, tfIdx, cur, dashboard_data, io, result >>

\* The listing query, then both are closed and set to None
\* (lines 591-604).
BatchList ==
    /\ pc = "batch_list"
    /\ \E o \in Outcomes :
         IF o = "ok"
         THEN /\ batch' = [batch EXCEPT
                              !.symbols = ListSymbols(db),
                              !.listing = CloseConn(CloseCursor(@, 1), 1),
                              !.cursor = FALSE,
                              !.conn = FALSE]
              /\ pc' = "batch_construct"
              /\ UNCHANGED failures
         ELSE /\ batch' = BatchFinally(batch)
              /\ failures' = failures + 1
              /\ pc' = "done"
    /\ UNCHANGED << call, db, now, self, conns, conn, cursor, queries,
                    symbol_id, tfIdx, cur, dashboard_data, io, result >>

\* generator = LightweightDashboardGenerator('stocks', skip_upload)
\* (line 607); only AzureBlobManager(...) (lines 41-46) can raise.
BatchConstruct ==
    /\ pc = "batch_construct"
    /\ \E o \in (IF call.skip_upload THEN {"ok"} ELSE Outcomes) :
         IF o = "ok"
         THEN /\ self' = NewGenerator("stocks", call.skip_upload)
              /\ batch' = [batch EXCEPT !.constructed = TRUE, !.idx = 1]
              /\ pc' = "batch_loop"
              /\ UNCHANGED failures
         ELSE /\ batch' = BatchFinally(batch)
              /\ failures' = failures + 1
              /\ pc' = "done"
              /\ UNCHANGED self
    /\ UNCHANGED << call, db, now, conns, conn, cursor, queries,
                    symbol_id, tfIdx, cur, dashboard_data, io, result >>

\* The head of the loop (lines 609-612): the next symbol's
\* generate_dashboard is called, or the loop is over and results is
\* returned (lines 624-625, 630-634).
BatchLoop ==
    /\ pc = "batch_loop"
    /\ IF batch.idx <= Len(batch.symbols)
       THEN /\ call' = [call EXCEPT !.symbol = batch.symbols[batch.idx]]
            /\ batch' = [batch EXCEPT
                            !.attempted = Append(@, batch.symbols[batch.idx])]
            /\ pc' = "connect"
            /\ conns' = << >>
            /\ conn' = 0
            /\ cursor' = 0
            /\ queries' = << >>
            /\ symbol_id' = 0
            /\ tfIdx' = 0
            /\ cur' = NoCur
            /\ dashboard_data' = NoData
            /\ io' = NoIo
            /\ result' = NoResult
       ELSE /\ batch' = BatchFinally(batch)
            /\ pc' = "done"
            /\ UNCHANGED << call, conns, conn, cursor, queries, symbol_id,
                            tfIdx, cur, dashboard_data, io, result >>
    /\ UNCHANGED << db, now, self, failures >>

\* A loop that records whatever generate_dashboard returned.
RecordAlways(results, symbol, url) == (symbol :> url) @@ results

\* if url: results[symbol] = url (lines 614-615)
RecordResult(results, symbol, url) ==
    IF url # NoUrl THEN (symbol :> url) @@ results ELSE results

\* url, uploaded = generator.generate_dashboard(...); if url: ...
\* (lines 612-618)
BatchRecord ==
    /\ pc = "batch_record"
    /\ batch' = [batch EXCEPT
                    !.results = RecordResult(@, call.symbol, result.url),
                    !.idx = @ + 1]
    /\ pc' = "batch_loop"
    /\ UNCHANGED << call, db, now, self, failures, conns, conn, cursor,
                    queries, symbol_id, tfIdx, cur, dashboard_data, io,
                    result >>

(***************************************************************************)
(* The databases and arguments the entry points are run with               *)
(***************************************************************************)
Candle(rid, source, symbol, t, o, h, l, c, v) ==
    [rid |-> rid, source |-> source, symbol_id |-> symbol, timestamp |-> t,
     open |-> o, high |-> h, low |-> l, close |-> c, volume |-> v]

Zone(rid, symbol, timeframe_id, zone_type, bottom, top, start, score, broken) ==
    [rid |-> rid, zone_id |-> rid, symbol_id |-> symbol,
     timeframe_id |-> timeframe_id, zone_type |-> zone_type,
     bottom_price |-> bottom, top_price |-> top, start_time |-> start,
     end_time |-> IF IsNull(start) THEN NULL ELSE start + 5,
     zone_score |-> score, is_broken |-> broken]

\* A volume_profile row: stocks rows are dated by period_start (a
\* timestamp), crypto rows by date (a calendar day).
Level(rid, symbol, at, price, volume, node_type) ==
    [rid |-> rid, symbol_id |-> symbol, period_start |-> at, date |-> at,
     price_level |-> price, volume |-> volume, node_type |-> node_type]

AllMatviews == {MatviewMap[m] : m \in DOMAIN MatviewMap}

\* shared.timeframes: every label of the market, numbered in order.
LabelIds(market) ==
    [l \in Range(TimeframeOrder(market)) |->
        CHOOSE i \in 1..Len(TimeframeOrder(market)) :
            TimeframeOrder(market)[i] = l]

\* A populated database: two known symbols, every view present, candles in
\* the views of the first timeframes, zones and volume levels for symbol 1.
FullDb(market) ==
    [symbols |-> "AAPL" :> 1 @@ "MSFT" :> 2,
     matviews |-> AllMatviews,
     timeframes |-> LabelIds(market),
     peers |-> "asc",
     candles |->
        {Candle(10 * i + j, MatviewName(Timeframes(market)[LoopTimeframes(market)[i]]),
                1, Clock - 10 * j, 100 + j, 104 + j, 99, 101 + j, 500 * j) :
            i \in 1..Len(LoopTimeframes(market)), j \in 1..2},
     zones |->
        {Zone(1, 1, 1, "demand", 14900, 15050, Clock - 600, 7, 0),
         Zone(2, 1, 1, "supply", 15200, 15300, Clock - 300, 9, 1),
         Zone(3, 1, 2, "supply", 15400, 15500, Clock - 200, NULL, 0)},
     volume_profile |->
        {Level(1, 1, IF market = "stocks" THEN Clock - 100 ELSE DateOf(Clock),
               15000, 700, "HVN"),
         Level(2, 1, IF market = "stocks" THEN Clock - 90 ELSE DateOf(Clock) - 1,
               15100, 300, "LVN")}]

\* A bare database: the symbols are known, no view exists, the labels are
\* not in shared.timeframes, and only minute rows are stored.
BareDb(market) ==
    [symbols |-> "AAPL" :> 1 @@ "MSFT" :> 2,
     matviews |-> {},
     timeframes |-> << >>,
     peers |-> "desc",
     candles |->
        {Candle(j, "minute_aggregates", 1, Clock - 10 * j,
                100 + j, 104 + j, 99, 101 + j, IF j = 2 THEN NULL ELSE 40) :
            j \in 1..3},
     zones |-> {},
     volume_profile |-> {}]

DashboardCalls ==
    {[NoArgs EXCEPT !.kind = "dashboard", !.symbol = s, !.lookback_days = d] :
        s \in {"AAPL", "ZZZZ"}, d \in {1, 30}}

\* generate_dashboard on a constructed generator.
InitDashboard ==
    /\ call \in DashboardCalls
    /\ \E m \in Markets, u \in BOOLEAN :
         /\ self = NewGenerator(m, u)
         /\ db \in {FullDb(m), BareDb(m)}
    /\ now = Clock
    /\ pc = "connect"
    /\ failures = 0
    /\ conns = << >>
    /\ conn = 0
    /\ cursor = 0
    /\ queries = << >>
    /\ symbol_id = 0
    /\ tfIdx = 0
    /\ cur = NoCur
    /\ dashboard_data = NoData
    /\ io = NoIo
    /\ result = NoResult
    /\ batch = NoBatch

\* generate_all_stock_dashboards(lookback_days, skip_upload)
InitBatch ==
    /\ \E u \in BOOLEAN :
         call = [NoArgs EXCEPT !.kind = "batch", !.lookback_days = 90,
                               !.skip_upload = u]
    /\ db \in {FullDb("stocks"), BareDb("stocks")}
    /\ self = NoGenerator
    /\ now = Clock
    /\ pc = "batch_connect"
    /\ failures = 0
    /\ conns = << >>
    /\ conn = 0
    /\ cursor = 0
    /\ queries = << >>
    /\ symbol_id = 0
    /\ tfIdx = 0
    /\ cur = NoCur
    /\ dashboard_data = NoData
    /\ io = NoIo
    /\ result = NoResult
    /\ batch = NoBatch

NextDashboard ==
    \/ Connect
    \/ ConnCursor
    \/ SymbolQuery
    \/ CandlesProbe
    \/ CandlesQuery
    \/ ZonesLookup
    \/ ZonesQuery
    \/ VolumeQuery
    \/ TfEnd
    \/ CloseAndReturn
    \/ CheckData
    \/ Render
    \/ Publish
    \/ BatchConnect
    \/ BatchCursor
    \/ BatchList
    \/ BatchConstruct
    \/ BatchLoop
    \/ BatchRecord

\* The dashboard generator: one generate_dashboard call, or one batch.
SpecDashboard == (InitDashboard \/ InitBatch) /\ [][NextDashboard]_vars

(***************************************************************************)
(* ChartGenerator (chart_generator.py)                                     *)
(***************************************************************************)
\* A lookup that never reports a ticker as missing.
SymbolNeverMissing(id) == FALSE

\* if not symbol_id (line 133)
ChartSymbolMissing(id) == id = 0

\* The timeframes whose view matview_map also names candles_<N>m.
MinuteViews == {m \in DOMAIN MatviewMap : m <= 390}

\* f"stocks.candles_{chart_timeframe_minutes}m" (line 151)
ChartViewName(chart_timeframe_minutes) ==
    IF chart_timeframe_minutes \in MinuteViews
    THEN MatviewMap[chart_timeframe_minutes]
    ELSE "candles_?m"

\* start_time.replace(hour=9, minute=30, second=0, microsecond=0)
MarketOpen(t) == DateOf(t) * MinutesPerDay + 9 * 60 + 30

\* time_range * 0.1: a timedelta times a float is rounded to the
\* resolution; the double 0.1 is a little above 1/10, so a half rounds
\* away from zero.
TenthOf(time_range) ==
    IF time_range >= 0 THEN (time_range + 5) \div 10
    ELSE 0 - ((5 - time_range) \div 10)

\* A fetch that queries from start_time as given.
UnpaddedStart(start_time, end_time) == start_time

\* The padding policy (lines 137-146).
PaddedStart(start_time, end_time) ==
    IF DateOf(start_time) = DateOf(end_time)
    THEN MarketOpen(start_time)
    ELSE start_time - TenthOf(end_time - start_time)

\* The rows of the chart query (lines 154-173): row[0] is the bucket.
ChartQueryRows(d, view_name, symbol, padded_start, end_time) ==
    LET hit == {r \in d.candles :
                   /\ r.source = view_name
                   /\ r.symbol_id = symbol
                   /\ r.timestamp >= padded_start
                   /\ r.timestamp <= end_time}
        ord == SortRows(hit, LAMBDA a, b : CandlePrecedes(d, a, b))
    IN  [i \in 1..Len(ord) |-> CandleRow(ord[i].timestamp, ord[i])]

\* The comprehension at lines 175-185 raises on a None: float(None),
\* int(None).
ChartCandlesRaise(rows) ==
    \E i \in 1..Len(rows) : \E k \in 2..6 : IsNull(rows[i][k])

ChartCandleDicts(rows) ==
    [i \in 1..Len(rows) |->
        [timestamp |-> rows[i][1], open |-> rows[i][2], high |-> rows[i][3],
         low |-> rows[i][4], close |-> rows[i][5], volume |-> rows[i][6]]]

\* start_time of the fetch: zone_formed_at (line 85), or
\* current_timestamp - timedelta(days=lookback_days) (line 594).
ChartStart ==
    IF call.kind = "zone_alert" THEN call.start_date
    ELSE call.end_date - call.lookback_days * MinutesPerDay

\* _fetch_chart_data (lines 131-192)
ChartFetch ==
    /\ pc = "chart_fetch"
    /\ LET id == SymbolId(db, call.symbol)
           view_name == ChartViewName(call.timeframe_minutes)
           padded_start == PaddedStart(ChartStart, call.end_date)
           rows == ChartQueryRows(db, view_name, id, padded_start,
                                  call.end_date)
       IN  IF ChartSymbolMissing(id)
           THEN /\ cur' = [cur EXCEPT !.candles = << >>]
                /\ UNCHANGED << queries, conns, failures, symbol_id >>
           ELSE \E o \in Outcomes :
                   /\ Executed(Query("chart", view_name, padded_start,
                                     call.end_date, "", "", o), o)
                   /\ symbol_id' = id
                   /\ cur' = [cur EXCEPT !.candles =
                                 IF o = "raise" \/ ChartCandlesRaise(rows)
                                 THEN << >> ELSE ChartCandleDicts(rows)]
    /\ pc' = "chart_check"
    /\ UNCHANGED << call, db, now, self, conn, cursor, tfIdx,
                    dashboard_data, io, result, batch >>

\* The fewest candles generate_price_action_chart draws (line 609).
MinCandles == 10

\* if not candles (line 89); if not candles or len(candles) < 10
\* (line 609)
EmptyOnly(kind, candles) == Len(candles) = 0

Insufficient(kind, candles) ==
    IF kind = "zone_alert" THEN Len(candles) = 0
    ELSE Len(candles) = 0 \/ Len(candles) < MinCandles

\* The chart generator returns (html_path, png_path) to its caller.
ChartReturned(html_path, png_path) ==
    /\ result' = [returned |-> TRUE, raised |-> FALSE, url |-> html_path,
                  png |-> png_path, flag |-> FALSE]
    /\ pc' = "done"

\* An exception leaves the chart generator.
ChartRaised ==
    /\ result' = [returned |-> FALSE, raised |-> TRUE, url |-> NoUrl,
                  png |-> NoUrl, flag |-> FALSE]
    /\ pc' = "done"

\* Lines 89-91 and 609-611: return None, None
ChartCheck ==
    /\ pc = "chart_check"
    /\ IF Insufficient(call.kind, cur.candles)
       THEN ChartReturned(NoUrl, NoUrl)
       ELSE pc' = "chart_html" /\ UNCHANGED result
    /\ UNCHANGED << call, db, now, self, failures, conns, conn, cursor,
                    queries, symbol_id, tfIdx, cur, dashboard_data, io,
                    batch >>

\* max(0, x) of the fraction n / d, d > 0
MaxZero(n, d) == IF n <= 0 THEN << 0, 1 >> ELSE << n, d >>

\* The distance past the zone's edge over the zone's height, as a
\* percentage, without a floor.
SignedPenetration(zone_type, zone_top, zone_bottom, current_price) ==
    IF zone_type = "demand"
    THEN << (zone_bottom - current_price) * 100, zone_top - zone_bottom >>
    ELSE << (current_price - zone_top) * 100, zone_top - zone_bottom >>

\* The penetration percentage (lines 226-230) as a fraction << n, d >>
\* with d > 0; zone_range is not 0.
Penetration(zone_type, zone_top, zone_bottom, current_price) ==
    LET zone_range == zone_top - zone_bottom
        sign == IF zone_range < 0 THEN 0 - 1 ELSE 1
    IN  IF zone_type = "demand"
        THEN MaxZero(sign * (zone_bottom - current_price) * 100,
                     sign * zone_range)
        ELSE MaxZero(sign * (current_price - zone_top) * 100,
                     sign * zone_range)

\* f"{penetration_pct:.1f}": the fraction in tenths, rounded half to even.
FormatTenths(p) ==
    LET q == (10 * p[1]) \div p[2]
        r == (10 * p[1]) % p[2]
    IN  IF 2 * r > p[2] \/ (2 * r = p[2] /\ q % 2 = 1) THEN q + 1 ELSE q

\* The HTML file name (lines 343-345, 732-734).
HtmlPath(kind, symbol) == << "data/temp/alert_charts", symbol, kind, ".html" >>

\* html_path.replace('.html', '.png') (line 366)
PngPath(html_path) == SubSeq(html_path, 1, Len(html_path) - 1) \o << ".png" >>

\* _generate_html_chart (lines 223-351) and _generate_price_action_html
\* (lines 646-740): the chart is built and written.  A zone of height 0
\* raises ZeroDivisionError at line 228 or 230.
\* A division that never fails.
NeverDividesByZero(zone_top, zone_bottom) == FALSE

\* zone_range = zone_top - zone_bottom; ... / zone_range (lines 226-230)
\* raises ZeroDivisionError when the zone has no height.
DividesByZero(zone_top, zone_bottom) == zone_top - zone_bottom = 0

ChartHtml ==
    /\ pc = "chart_html"
    /\ \E o \in Outcomes :
         LET zero == call.kind = "zone_alert"
                     /\ DividesByZero(call.zone_top, call.zone_bottom)
             path == HtmlPath(call.kind, call.symbol)
         IN  /\ failures' = IF o = "raise" /\ ~zero THEN failures + 1
                            ELSE failures
             /\ IF zero \/ o = "raise"
                THEN /\ ChartRaised
                     /\ UNCHANGED << io, cur >>
                ELSE /\ io' = [io EXCEPT
                                 !.files = @ \cup {path},
                                 !.penetration =
                                    IF call.kind = "zone_alert"
                                    THEN Penetration(call.zone_type,
                                             call.zone_top, call.zone_bottom,
                                             call.current_price)
                                    ELSE << >>]
                     /\ pc' = "chart_png"
                     /\ UNCHANGED << result, cur >>
    /\ UNCHANGED << call, db, now, self, conns, conn, cursor, queries,
                    symbol_id, tfIdx, dashboard_data, batch >>

\* _generate_png_thumbnail (lines 353-385).  _generate_html_chart returns
\* a str, _generate_price_action_html a Path: Path.replace('.html', '.png')
\* at line 366, outside the try, raises TypeError.  Inside the try the
\* imports and the read of the HTML file may raise, which returns None;
\* nothing writes the PNG file.
ChartPng ==
    /\ pc = "chart_png"
    /\ LET html_path == HtmlPath(call.kind, call.symbol)
       IN  IF call.kind = "price_action"
           THEN ChartRaised
           ELSE IF call.rasterizer
           THEN ChartReturned(html_path, PngPath(html_path))
           ELSE ChartReturned(html_path, NoUrl)
    /\ UNCHANGED << call, db, now, self, failures, conns, conn, cursor,
                    queries, symbol_id, tfIdx, cur, dashboard_data, io,
                    batch >>

\* Candles of view candles_5m for symbol 1: n on the clock's day, five
\* minutes apart back from the clock, and three on the day before.
ChartCandles(n, volume) ==
    {Candle(j, "candles_5m", 1, Clock - 5 * (j - 1),
            14900 + j, 14950 + j, 14890, 14910 + j,
            IF j = 2 THEN volume ELSE 1000 + j) : j \in 1..n}
    \cup {Candle(100 + j, "candles_5m", 1, Clock - MinutesPerDay - 5 * j,
                 14800, 14850, 14790, 14820, 900) : j \in 1..3}

ChartDb(n, volume) ==
    [symbols |-> "AAPL" :> 1 @@ "MSFT" :> 2,
     matviews |-> AllMatviews,
     timeframes |-> LabelIds("stocks"),
     peers |-> "asc",
     candles |-> ChartCandles(n, volume),
     zones |-> {},
     volume_profile |-> {}]

\* Twelve candles, four candles, twelve candles of which one has no volume.
ChartDbs == {ChartDb(12, 700), ChartDb(4, 700), ChartDb(12, NULL)}

\* (zone_formed_at, current_timestamp): the same day after the open, the
\* same day before the open, the day before to the clock, and spans of 25
\* and 1444 ticks across midnight.
ChartTimes ==
    {<< Clock - 270, Clock >>,
     << DateOf(Clock) * MinutesPerDay + 480, DateOf(Clock) * MinutesPerDay + 540 >>,
     << Clock - MinutesPerDay - 270, Clock >>,
     << DateOf(Clock) * MinutesPerDay - 10, DateOf(Clock) * MinutesPerDay + 15 >>,
     << Clock - 1444, Clock >>}

\* (zone_top, zone_bottom) in cents
ChartZones == {<< 15050, 14900 >>, << 15125, 15000 >>, << 15000, 15000 >>}

ChartPrices == {14800, 14900, 14925, 15050, 15100, 15200}

ZoneAlertCalls ==
    {[NoArgs EXCEPT !.kind = "zone_alert", !.symbol = s, !.zone_type = zt,
                    !.zone_top = z[1], !.zone_bottom = z[2],
                    !.current_price = p, !.timeframe_minutes = 5,
                    !.start_date = t[1], !.end_date = t[2],
                    !.rasterizer = r] :
        s \in {"AAPL", "ZZZZ"}, zt \in {"demand", "supply"},
        z \in ChartZones, p \in ChartPrices, t \in ChartTimes,
        r \in BOOLEAN}

PriceActionCalls ==
    {[NoArgs EXCEPT !.kind = "price_action", !.symbol = s,
                    !.timeframe_minutes = 5, !.lookback_days = d,
                    !.end_date = Clock, !.rasterizer = r] :
        s \in {"AAPL", "ZZZZ"}, d \in {1, 30}, r \in BOOLEAN}

\* What every call starts from, whatever the entry point.
InitLocals ==
    /\ now = Clock
    /\ failures = 0
    /\ queries = << >>
    /\ tfIdx = 0
    /\ cur = NoCur
    /\ dashboard_data = NoData
    /\ io = NoIo
    /\ result = NoResult
    /\ batch = NoBatch

\* generate_zone_alert_chart or generate_price_action_chart
InitChart ==
    /\ call \in ZoneAlertCalls \cup PriceActionCalls
    /\ db \in ChartDbs
    /\ self = NoGenerator
    /\ pc = "chart_fetch"
    /\ conns = << >>
    /\ conn = 0
    /\ cursor = 0
    /\ symbol_id = 0
    /\ InitLocals

NextChart ==
    \/ ChartFetch
    \/ ChartCheck
    \/ ChartHtml
    \/ ChartPng

\* The chart generator: one chart call.
SpecChart == InitChart /\ [][NextChart]_vars

\* Minutes before the clock at which symbol 1 has a minute row; the row 30
\* minutes back is stored twice (the layer does not enforce one row per
\* timestamp).
MinuteOffsets == {0, 1, 5, 10, 29, 30, 31, 45, 60, 61, 90, 119, 120, 121}

FetchCandles(priceless) ==
    {Candle(k, "minute_aggregates", 1, Clock - k, 100 + (k % 7), 110 + (k % 5),
            90 + (k % 3), IF k = priceless THEN NULL ELSE 100 + (k % 4),
            IF k = 10 THEN NULL ELSE k) : k \in MinuteOffsets}
    \cup {Candle(500, "minute_aggregates", 1, Clock - 30, 108, 120, 80, 109, 7),
          Candle(501, "minute_aggregates", 2, Clock - 30, 1, 2, 1, 2, 7)}
    \cup {Candle(1000 + 10 * m + j, MatviewName(m), 1, Clock - m * j,
                 100 + j, 110 + j, 90, 105 + j,
                 IF j = 2 THEN 0 ELSE 50 * j) :
              m \in {2, 5, 15, 30}, j \in 0..5}

\* The candle tables, with or without the views, and with or without a
\* minute row that has no close.
FetchCandleDb(views, priceless) ==
    [symbols |-> "AAPL" :> 1 @@ "MSFT" :> 2,
     matviews |-> IF views THEN AllMatviews ELSE {},
     timeframes |-> "5min" :> 1 @@ "15min" :> 2,
     peers |-> IF views THEN "asc" ELSE "desc",
     candles |-> FetchCandles(priceless),
     zones |-> {},
     volume_profile |-> {}]

\* n zones of symbol 1.  Pattern 1: one score, start times that repeat.
\* Pattern 2: scores 0..3 and NULL.  Pattern 3: distinct scores, every
\* other zone on timeframe 2, and in the tables of 7, 15, 23 and 31 zones
\* zone 2 without a bottom price.
ZoneTable(n, pattern) ==
    {Zone(i, 1,
          IF pattern = 3 THEN 1 + (i % 2) ELSE 1,
          IF i % 2 = 0 THEN "demand" ELSE "supply",
          IF pattern = 3 /\ i = 2 /\ n % 8 = 7 THEN NULL ELSE 14900 + i,
          15000 + i,
          Clock - (((i * 7) % 13) * 10),
          IF pattern = 1 THEN 5
          ELSE IF pattern = 2 THEN (IF i % 5 = 0 THEN NULL ELSE i % 4)
          ELSE i,
          IF i % 3 = 0 THEN 1 ELSE 0) : i \in 1..n}

FetchZoneDb(n, pattern, peers) ==
    [symbols |-> "AAPL" :> 1 @@ "MSFT" :> 2,
     matviews |-> AllMatviews,
     timeframes |-> "5min" :> 1 @@ "15min" :> 2,
     peers |-> peers,
     candles |-> {},
     zones |-> ZoneTable(n, pattern),
     volume_profile |-> {}]

\* The range the helpers are called with: the two days up to the clock.
FetchStart == Clock - 2 * MinutesPerDay

\* n price levels of symbol 1, all dated in the range: stocks rows at a
\* timestamp, crypto rows on the first day of the range.  Pattern 1: one
\* row a level.  Pattern 2: two rows a level, one without a volume, and
\* every sixth level without any volume.  Pattern 3: one row a level,
\* every other one outside the range.
LevelTable(market, n, pattern) ==
    LET inside == IF market = "stocks" THEN Clock - 60 ELSE DateOf(FetchStart)
        outside == IF market = "stocks" THEN FetchStart - 1
                   ELSE DateOf(FetchStart) - 1
    IN  {Level(i, 1,
               IF pattern = 3 /\ i % 2 = 0 THEN outside ELSE inside,
               15000 + i,
               IF pattern = 2 /\ i % 6 = 0 THEN NULL ELSE (i * 7) % 11,
               IF i % 3 = 0 THEN "HVN"
               ELSE IF i % 3 = 1 THEN "LVN" ELSE "NULL") : i \in 1..n}
        \cup (IF pattern = 2
              THEN {Level(1000 + i, 1, inside, 15000 + i, NULL, "NULL") :
                       i \in 1..n}
                   \cup {Level(2000 + i, 1, inside, 15000 + i,
                               IF i % 6 = 0 THEN NULL ELSE 3, "NULL") :
                            i \in 1..n}
              ELSE {})

FetchLevelDb(market, n, pattern, peers) ==
    [symbols |-> "AAPL" :> 1 @@ "MSFT" :> 2,
     matviews |-> AllMatviews,
     timeframes |-> "5min" :> 1 @@ "15min" :> 2,
     peers |-> peers,
     candles |-> {},
     zones |-> {},
     volume_profile |-> LevelTable(market, n, pattern)]

\* The timeframes _fetch_candles is called with: 7 and 20 have no view.
FetchMinutes == {2, 5, 7, 15, 20, 30}

\* One helper called on an open cursor.
InitFetch ==
    /\ \/ /\ \E m \in FetchMinutes :
                 call = [NoArgs EXCEPT !.kind = "candles",
                                       !.timeframe_minutes = m,
                                       !.start_date = Clock - 120,
                                       !.end_date = Clock]
             /\ \E v \in BOOLEAN, k \in {0 - 1, 45} :
                 db = FetchCandleDb(v, k)
             /\ self = NewGenerator("stocks", TRUE)
             /\ pc = "candles_probe"
          \/ /\ \E l \in {"5min", "1min"} :
                 call = [NoArgs EXCEPT !.kind = "zones", !.timeframe = l]
             /\ \E n \in 0..MaxZoneRows, p \in 1..3, o \in {"asc", "desc"} :
                 db = FetchZoneDb(n, p, o)
             /\ self = NewGenerator("stocks", TRUE)
             /\ pc = "zones_lookup"
          \/ /\ call = [NoArgs EXCEPT !.kind = "volume",
                                       !.start_date = FetchStart,
                                       !.end_date = Clock]
             /\ \E m \in Markets :
                 /\ self = NewGenerator(m, TRUE)
                 /\ \E n \in 0..MaxLevels, p \in 1..3, o \in {"asc", "desc"} :
                       db = FetchLevelDb(m, n, p, o)
             /\ pc = "volume"
    /\ conns = << OpenCursor(<< NewConn >>, 1)[1] >>
    /\ conn = 1
    /\ cursor = 1
    /\ symbol_id = 1
    /\ InitLocals

NextFetch ==
    \/ CandlesProbe
    \/ CandlesQuery
    \/ ZonesLookup
    \/ ZonesQuery
    \/ VolumeQuery

\* The fetch helpers: one call of _fetch_candles, _fetch_zones or
\* _fetch_volume_profile.
SpecFetch == InitFetch /\ [][NextFetch]_vars

Init == InitDashboard \/ InitBatch \/ InitChart \/ InitFetch

Next == NextDashboard \/ NextChart \/ NextFetch

\* Every entry point.
Spec == Init /\ [][Next]_vars

(***************************************************************************)
(* Properties of _fetch_dashboard_data and generate_dashboard              *)
(***************************************************************************)
\* The logged queries that raised.
FailedQueries == {i \in DOMAIN queries : ~queries[i].ok}

\* The label of the i-th timeframe of the loop.
LabelAt(i) == LoopTimeframes(self.market_type)[i]

\* C1: generate_dashboard for a known symbol, on a database that has
\* candles, zones and volume levels for every timeframe of the loop: when
\* exactly one query raised, and it was a data query of one timeframe, the
\* dashboard data has one bucket per timeframe, exactly one bucket is the
\* empty placeholder, it is the bucket of the timeframe whose query raised,
\* and a location is returned.
C1_OnePlaceholder ==
    (/\ call.kind = "dashboard"
     /\ db = FullDb(self.market_type)
     /\ result.returned
     /\ failures = 1
     /\ Cardinality(FailedQueries) = 1
     /\ \A i \in FailedQueries :
           queries[i].tf >= 1 /\ queries[i].kind # "probe")
    => LET tfs == dashboard_data.timeframes
       IN  /\ ~dashboard_data.none
           /\ DOMAIN tfs = Range(LoopTimeframes(self.market_type))
           /\ Cardinality({l \in DOMAIN tfs : tfs[l] = Placeholder}) = 1
           /\ \A i \in FailedQueries : tfs[LabelAt(queries[i].tf)] = Placeholder
           /\ result.url # NoUrl

\* _fetch_dashboard_data has returned to generate_dashboard.
FetchReturned ==
    /\ InDashboard
    /\ pc \in {"fetched", "render", "publish"} \/ result.returned

C3_FreshConnection ==
    \A i, j \in DOMAIN queries :
        (/\ InDashboard
         /\ i < j
         /\ ~queries[i].ok
         /\ queries[i].tf >= 1
         /\ queries[i].kind # "probe"
         /\ queries[j].tf > queries[i].tf)
        => queries[j].conn # queries[i].conn

(***************************************************************************)
(* Properties of generate_all_stock_dashboards                             *)
(***************************************************************************)
IsPrefix(s, t) ==
    Len(s) <= Len(t) /\ \A i \in 1..Len(s) : s[i] = t[i]

\* The symbols whose generate_dashboard returned a location.
Located == {i \in DOMAIN batch.returns : batch.returns[i].url # NoUrl}

\* The mapping holds exactly the symbols whose generate_dashboard returned
\* a location, each mapped to it.
ResultsMatchReturns ==
    /\ DOMAIN batch.results = {batch.returns[i].symbol : i \in Located}
    /\ \A i \in Located :
          batch.results[batch.returns[i].symbol] = batch.returns[i].url

\* The loop takes the listed symbols one at a time in list order: the
\* symbols attempted are a prefix of the list, and every generate_dashboard
\* call but the running one has returned.
InListOrder ==
    /\ IsPrefix(batch.attempted, batch.symbols)
    /\ Len(batch.returns) \in {Len(batch.attempted) - 1, Len(batch.attempted)}
    /\ \A i \in DOMAIN batch.returns :
          batch.returns[i].symbol = batch.attempted[i]

\* C4 (as stated): whenever generate_all_stock_dashboards returns, every
\* listed symbol was attempted exactly once and in list order, whatever
\* failed along the way, and the mapping returned holds exactly the
\* symbols whose generate_dashboard returned a location.
C4_EverySymbolAttempted ==
    (call.kind = "batch" /\ batch.returned) =>
        /\ batch.attempted = batch.symbols
        /\ Len(batch.returns) = Len(batch.symbols)
        /\ InListOrder
        /\ ResultsMatchReturns

\* C4 (amended): once the generator is constructed, the listed symbols are
\* attempted one at a time in list order, no failure of one symbol stops
\* the loop, every listed symbol has been attempted exactly once when the
\* function returns, and the mapping returned holds exactly the symbols
\* whose generate_dashboard returned a location.  When the listing or the
\* construction of the generator raises, no symbol is attempted and the
\* mapping returned is empty.
C4_LoopIsolatesFailures ==
    call.kind = "batch" =>
        /\ InListOrder
        /\ (batch.returned /\ batch.constructed) =>
              /\ batch.attempted = batch.symbols
              /\ Len(batch.returns) = Len(batch.symbols)
              /\ ResultsMatchReturns
        /\ (batch.returned /\ ~batch.constructed) =>
              /\ batch.attempted = << >>
              /\ batch.results = << >>

\* The batch returned after the first symbol's dashboard failed and the
\* second symbol's dashboard was generated.
C4_Witness ==
    /\ call.kind = "batch"
    /\ batch.returned
    /\ Len(batch.symbols) = 2
    /\ Len(batch.returns) = 2
    /\ batch.returns[1].url = NoUrl
    /\ batch.returns[2].url # NoUrl
    /\ DOMAIN batch.results = {batch.symbols[2]}

(***************************************************************************)
(* Properties of the unknown ticker                                        *)
(***************************************************************************)
\* An entry point called with a ticker the resolver does not know.
UnknownTicker ==
    /\ call.kind \in {"dashboard", "zone_alert", "price_action"}
    /\ SymbolId(db, call.symbol) = 0

\* C5: for a ticker the resolver does not know, the entry point does not
\* raise; generate_zone_alert_chart and generate_price_action_chart return
\* (None, None) and generate_dashboard returns (None, False); no query
\* other than the symbol lookup is issued, and nothing is written or
\* uploaded.
C5_UnknownTicker ==
    UnknownTicker =>
        /\ \A i \in DOMAIN queries : queries[i].kind = "symbol"
        /\ io.files = {}
        /\ io.uploads = << >>
        /\ ~result.raised
        /\ pc = "done" => result.returned
        /\ result.returned =>
              /\ result.url = NoUrl
              /\ result.png = NoUrl
              /\ result.flag = FALSE

\* generate_zone_alert_chart has returned for the unknown ticker.
C5_Witness ==
    /\ UnknownTicker
    /\ call.kind = "zone_alert"
    /\ pc = "done"
    /\ result.returned
    /\ result.url = NoUrl

(***************************************************************************)
(* Properties of the penetration percentage                                *)
(***************************************************************************)
\* _generate_html_chart has computed the penetration of a zone with
\* top > bottom.
PenetrationComputed ==
    /\ call.kind = "zone_alert"
    /\ io.penetration # << >>
    /\ call.zone_top > call.zone_bottom

\* C6: for a zone with top > bottom the penetration computed equals
\* max(0, (bottom - price) / (top - bottom) * 100) for a demand zone and
\* max(0, (price - top) / (top - bottom) * 100) for a supply zone; it is
\* never negative, 0 for a demand zone when price >= bottom and 0 for a
\* supply zone when price <= top; for top 150.50 and bottom 149.00 a price
\* of 149.25 gives 0 and a price of 148.00 is shown as 66.7.
C6_Penetration ==
    PenetrationComputed =>
        LET p == io.penetration
            height == call.zone_top - call.zone_bottom
            past == IF call.zone_type = "demand"
                    THEN call.zone_bottom - call.current_price
                    ELSE call.current_price - call.zone_top
        IN  /\ p[2] > 0
            /\ p[1] >= 0
            /\ p[1] * height = Max(0, past * 100) * p[2]
            /\ (call.zone_type = "demand"
                  /\ call.current_price >= call.zone_bottom) => p[1] = 0
            /\ (call.zone_type = "supply"
                  /\ call.current_price <= call.zone_top) => p[1] = 0
            /\ (/\ call.zone_type = "demand"
                /\ call.zone_top = 15050
                /\ call.zone_bottom = 14900) =>
                  /\ call.current_price = 14925 => p[1] = 0
                  /\ call.current_price = 14800 => FormatTenths(p) = 667

\* The chart of the demand zone 149.00-150.50 was written with the price
\* at 148.00.
C6_Witness ==
    /\ PenetrationComputed
    /\ call.zone_type = "demand"
    /\ call.zone_top = 15050
    /\ call.zone_bottom = 14900
    /\ call.current_price = 14800
    /\ FormatTenths(io.penetration) = 667

(***************************************************************************)
(* Properties of the candle queries                                        *)
(***************************************************************************)
InChart == call.kind \in {"zone_alert", "price_action"}

\* The logged queries that read candles.
CandleQueries ==
    {i \in DOMAIN queries :
        queries[i].kind \in {"chart", "view", "stride", "bucket"}}

\* The start and the end the fetcher was called with for logged query q.
RequestedStart(q) ==
    IF InChart THEN ChartStart
    ELSE IF InDashboard
    THEN now - TfLookbackDays(LabelAt(q.tf)) * MinutesPerDay
    ELSE call.start_date

RequestedEnd(q) == IF InChart THEN call.end_date ELSE EndDate

\* C7 (as stated): every candle query, of either fetcher, starts at 09:30
\* of the day when start and end are on one calendar day, and otherwise a
\* tenth of the span (to the resolution of the clock) before the start; it
\* ends at the end requested.
C7_EveryFetchPadded ==
    \A i \in CandleQueries :
        LET q == queries[i]
            start == RequestedStart(q)
            end == RequestedEnd(q)
        IN  /\ q.hi = end
            /\ IF DateOf(start) = DateOf(end)
               THEN q.lo = MarketOpen(start)
               ELSE 10 * (start - q.lo) - (end - start) \in (0 - 4)..5

\* C7 (amended): a query of ChartGenerator._fetch_chart_data starts at
\* 09:30 of the day when start and end are on one calendar day, and
\* otherwise a tenth of the span before the start, the tenth rounded to
\* the resolution of the clock with a half rounded away from zero; a query
\* of LightweightDashboardGenerator._fetch_candles starts at the start it
\* was given; every candle query ends at the end requested.
C7_ChartFetchPadded ==
    \A i \in CandleQueries :
        LET q == queries[i]
            start == RequestedStart(q)
            end == RequestedEnd(q)
            span == end - start
            pad == start - q.lo
        IN  /\ q.hi = end
            /\ q.kind = "chart" =>
                  IF DateOf(start) = DateOf(end)
                  THEN q.lo = DateOf(start) * MinutesPerDay + 570
                  ELSE /\ span >= 0
                       /\ 10 * pad - span \in (0 - 4)..5
            /\ q.kind # "chart" => q.lo = start

\* A chart query over a span of 25 ticks across midnight: a tenth is two
\* and a half ticks, and the query starts three ticks before the start.
C7_Witness ==
    /\ InChart
    /\ \E i \in CandleQueries :
          /\ queries[i].kind = "chart"
          /\ queries[i].hi - ChartStart = 25
          /\ DateOf(ChartStart) # DateOf(queries[i].hi)
          /\ queries[i].lo = ChartStart - 3

(***************************************************************************)
(* Properties of the fetch helpers called alone                            *)
(***************************************************************************)
\* The helper of the given kind has returned.
HelperDone(kind) == call.kind = kind /\ pc = "done"

\* The logged queries that ask whether the view exists.
Probes == {i \in DOMAIN queries : queries[i].kind = "probe"}

\* The probe was answered, and the answer was that the view exists.
ProbeSaysExists ==
    \E i \in Probes :
        queries[i].ok /\ queries[i].target \in db.matviews

\* C8: _fetch_candles issues exactly one candle query.  It reads the
\* timeframe's view if and only if the timeframe has a view name and the
\* probe answered that the view exists; in every other case (no view name,
\* probe false, probe raised) it reads the minute table, with the stride
\* query when timeframe_minutes <= 15 and the bucketed aggregation when
\* timeframe_minutes > 15.  The candles returned are the rows of that
\* query.
C8_SourceSelection ==
    HelperDone("candles") =>
        LET m == call.timeframe_minutes
            named == m \in DOMAIN MatviewMap
            fast == named /\ ProbeSaysExists
        IN  /\ Cardinality(CandleQueries) = 1
            /\ Cardinality(Probes) = IF named THEN 1 ELSE 0
            /\ \A i \in CandleQueries :
                  LET q == queries[i]
                  IN  /\ q.kind = "view" <=> fast
                      /\ fast => q.target = MatviewMap[m]
                      /\ ~fast =>
                            /\ q.target = "minute_aggregates"
                            /\ q.kind = "stride" <=> m <= 15
                            /\ q.kind = "bucket" <=> m > 15
                      /\ q.ok =>
                            LET rows ==
                                  IF fast
                                  THEN ViewQueryRows(db, MatviewMap[m],
                                           symbol_id, q.lo, q.hi)
                                  ELSE IF m <= 15
                                  THEN StrideQueryRows(db, symbol_id,
                                           q.lo, q.hi, m)
                                  ELSE BucketQueryRows(db, symbol_id,
                                           q.lo, q.hi, m)
                            IN  cur.candles = IF CandlesRaise(rows) THEN << >>
                                              ELSE CandleDicts(rows)

\* The 15-minute timeframe has a view name, the probe raised, and the
\* stride query on the minute table was answered.
C8_Witness ==
    /\ HelperDone("candles")
    /\ call.timeframe_minutes = 15
    /\ \E i \in Probes : ~queries[i].ok
    /\ \E i \in CandleQueries :
          /\ queries[i].kind = "stride"
          /\ queries[i].ok
    /\ Len(cur.candles) > 0

\* The zones of the symbol and the timeframe label _fetch_zones was
\* called with.
Candidates ==
    {r \in db.zones :
        /\ r.symbol_id = symbol_id
        /\ call.timeframe \in DOMAIN db.timeframes
        /\ r.timeframe_id = db.timeframes[call.timeframe]}

\* Score descending (a NULL score counting 0), ties by start descending.
ZonesOrdered(zs) ==
    \A i, j \in DOMAIN zs :
        i < j =>
            \/ zs[i].zone_score > zs[j].zone_score
            \/ /\ zs[i].zone_score = zs[j].zone_score
               /\ zs[i].start_time >= zs[j].start_time

\* Stored zone r ranks strictly above listed zone z.
Outranks(r, z) ==
    LET score == IF IsNull(r.zone_score) THEN 0 ELSE r.zone_score
        start == EpochOf(r.start_time)
    IN  \/ score > z.zone_score
        \/ score = z.zone_score /\ start > z.start_time

\* zs is made of the ZoneLimit highest-ranked candidates: every entry is a
\* candidate, no candidate is listed twice, the list is as long as the cap
\* allows, and no candidate left out ranks above a listed one.
ZonesTopRanked(zs) ==
    /\ \A i \in DOMAIN zs :
          \E r \in Candidates :
              /\ r.zone_id = zs[i].zone_id
              /\ zs[i].zone_score =
                    (IF IsNull(r.zone_score) THEN 0 ELSE r.zone_score)
              /\ zs[i].start_time = EpochOf(r.start_time)
    /\ \A i, j \in DOMAIN zs : zs[i].zone_id = zs[j].zone_id => i = j
    /\ Len(zs) = Min(30, Cardinality(Candidates))
    /\ \A r \in Candidates :
          (\A i \in DOMAIN zs : zs[i].zone_id # r.zone_id) =>
              \A i \in DOMAIN zs : ~Outranks(r, zs[i])

ZonesAnswered == \A i \in DOMAIN queries : queries[i].ok

\* A zone of the symbol and timeframe is stored without a price.
Unpriced ==
    \E r \in Candidates : IsNull(r.bottom_price) \/ IsNull(r.top_price)

LevelRows(p) ==
    {r \in db.volume_profile :
        /\ r.symbol_id = symbol_id
        /\ r.price_level = p
        /\ IF self.schema = "stocks"
           THEN r.period_start >= call.start_date
                /\ r.period_start <= call.end_date
           ELSE r.date >= DateOf(call.start_date)
                /\ r.date <= DateOf(call.end_date)}

\* The sum of the volumes stored at level p in the range.
LevelVolume(p) ==
    LET some == {r \in LevelRows(p) : ~IsNull(r.volume)}
    IN  SetSum(some, [r \in some |-> r.volume])

\* C10: every list _fetch_volume_profile returns has at most 50 nodes, at
\* most one node per price level, each node's volume the sum over its
\* level in the requested range, and is ordered by that volume descending;
\* the range filter is on period_start with timestamp bounds for stocks
\* and on date with the bounds truncated to days for crypto.
C10_VolumeRanked ==
    HelperDone("volume") =>
        LET ns == cur.volume_profile
        IN  /\ Len(ns) <= 50
            /\ \A i, j \in DOMAIN ns : ns[i].price = ns[j].price => i = j
            /\ \A i \in DOMAIN ns :
                  /\ LevelRows(ns[i].price) # {}
                  /\ ns[i].dollar_volume = LevelVolume(ns[i].price)
            /\ \A i, j \in DOMAIN ns :
                  i < j => ns[i].dollar_volume >= ns[j].dollar_volume
            /\ \A k \in DOMAIN queries :
                  LET q == queries[k]
                  IN  IF self.schema = "stocks"
                      THEN /\ q.column = "period_start"
                           /\ q.unit = "timestamp"
                           /\ q.lo = call.start_date
                           /\ q.hi = call.end_date
                      ELSE /\ q.column = "date"
                           /\ q.unit = "date"
                           /\ q.lo = DateOf(call.start_date)
                           /\ q.hi = DateOf(call.end_date)

(***************************************************************************)
(* Properties of the candle sequences                                      *)
(***************************************************************************)
\* A candle fetcher has just returned: the last query logged is its candle
\* query, and cur.candles is what it returned.
CandlesFetched ==
    /\ Len(queries) > 0
    /\ Len(queries) \in CandleQueries

\* The candle query that was just answered or raised.
LastQuery == queries[Len(queries)]

\* The timestamps of the candles returned, in ticks or in epoch seconds as
\* the fetcher gives them, and the bounds of the query in the same unit.
CandleTimes ==
    [i \in DOMAIN cur.candles |->
        IF InChart THEN cur.candles[i].timestamp ELSE cur.candles[i].time]

QueryLo == IF InChart THEN LastQuery.lo ELSE EpochOf(LastQuery.lo)

QueryHi == IF InChart THEN LastQuery.hi ELSE EpochOf(LastQuery.hi)

NonDecreasing(ts) == \A i, j \in DOMAIN ts : i < j => ts[i] <= ts[j]

\* The stored rows the candle query's WHERE clause keeps, whatever the
\* variant.
MatchingRows ==
    {r \in db.candles :
        /\ r.source = LastQuery.target
        /\ r.symbol_id = symbol_id
        /\ r.timestamp >= LastQuery.lo
        /\ r.timestamp <= LastQuery.hi
        /\ LastQuery.kind = "stride" =>
              (r.timestamp % 60) % TfMinutes = 0}

\* C11 (as stated): every candle sequence a candle fetcher returns, from
\* the view, the stride or the bucketed query or from the chart query, is
\* non-decreasing in timestamp, and every timestamp lies within the
\* queried range; when no row matches the sequence is empty and nothing is
\* raised.
C11_WithinQueriedRange ==
    CandlesFetched =>
        /\ NonDecreasing(CandleTimes)
        /\ \A i \in DOMAIN CandleTimes :
              CandleTimes[i] >= QueryLo /\ CandleTimes[i] <= QueryHi
        /\ MatchingRows = {} => cur.candles = << >>
        /\ ~cur.propagated

\* C11 (amended): every candle sequence a candle fetcher returns is
\* non-decreasing in timestamp.  From the view, the stride and the chart
\* query every timestamp lies within the queried range.  From the bucketed
\* aggregation a timestamp is the start of its bucket: it is a multiple of
\* the timeframe, not after the end of the range, and less than one
\* timeframe before its start.  When no row matches, the sequence is empty
\* and nothing is raised.
C11_OrderedCandles ==
    CandlesFetched =>
        /\ NonDecreasing(CandleTimes)
        /\ LastQuery.kind # "bucket" =>
              \A i \in DOMAIN CandleTimes :
                  CandleTimes[i] >= QueryLo /\ CandleTimes[i] <= QueryHi
        /\ LastQuery.kind = "bucket" =>
              \A i \in DOMAIN CandleTimes :
                  /\ CandleTimes[i] > QueryLo - 60 * TfMinutes
                  /\ CandleTimes[i] <= QueryHi
                  /\ \E b \in LastQuery.lo - TfMinutes..LastQuery.hi :
                        b % TfMinutes = 0 /\ CandleTimes[i] = EpochOf(b)
        /\ MatchingRows = {} => cur.candles = << >>
        /\ ~cur.propagated

\* The 20-minute aggregation over 12:30-14:30 returned several candles,
\* the first of them stamped 12:20.
C11_Witness ==
    /\ CandlesFetched
    /\ LastQuery.kind = "bucket"
    /\ LastQuery.ok
    /\ TfMinutes = 20
    /\ Len(cur.candles) > 2
    /\ cur.candles[1].time = EpochOf(LastQuery.lo - 10)


(***************************************************************************)
(* C12: the publishing mode                                                *)
(***************************************************************************)
\* The generate_dashboard call has a generator to run on.
Constructed == call.kind = "dashboard" \/ batch.constructed

\* The location generate_dashboard writes in local mode, and the name it
\* uploads under.
CallFilename == Filename(self.market_type, call.symbol)

\* The call handed its caller a location.
GaveLocation == result.returned /\ result.url # NoUrl

\* C12: the publishing mode is fixed at construction: the blob manager is
\* absent exactly when skip_upload is set, a batch's generator carries the
\* batch's skip_upload, a generator in local mode never uploads and the
\* location it returns is the local file it wrote, and a generator in
\* upload mode never writes a local file and the location it returns is
\* that of the one upload that succeeded.
C12_PublishingMode ==
    (InDashboard /\ Constructed) =>
        /\ (self.blob_manager = "None") <=> self.skip_upload
        /\ call.kind = "batch" => self.skip_upload = call.skip_upload
        /\ self.skip_upload =>
              /\ io.uploads = << >>
              /\ io.files \subseteq {LocalPath(CallFilename)}
              /\ GaveLocation =>
                    /\ result.url = LocalPath(CallFilename)
                    /\ result.url \in io.files
        /\ ~self.skip_upload =>
              /\ io.files = {}
              /\ GaveLocation =>
                    /\ io.uploads = << [name |-> CallFilename, ok |-> TRUE] >>
                    /\ result.url = BlobUrl(CallFilename)

\* A call in upload mode returned the location of its upload, having
\* written no file.
C12_Witness ==
    /\ call.kind = "dashboard"
    /\ ~self.skip_upload
    /\ GaveLocation
    /\ Len(io.uploads) = 1
    /\ io.files = {}

(***************************************************************************)
(* C13: a failed render or upload                                          *)
(***************************************************************************)
\* _render_html raised: data was fetched, the call is over and the
\* document was never rendered.
RenderRaised ==
    /\ InDashboard /\ result.returned
    /\ ~dashboard_data.none
    /\ ~io.rendered

\* blob_manager.upload_html raised.
UploadRaised ==
    /\ InDashboard /\ result.returned
    /\ \E i \in 1..Len(io.uploads) : ~io.uploads[i].ok

\* The caller got the failure result: no location, flag false.
GotFailure == result.url = NoUrl /\ result.flag = FALSE /\ ~result.raised

\* C13 as stated: when the upload or the render raises in an uploading
\* generate_dashboard, the upload is attempted exactly once in that call
\* and the caller receives the failure result, never a location.
C13_AttemptedExactlyOnce ==
    (~self.skip_upload /\ (RenderRaised \/ UploadRaised)) =>
        /\ Len(io.uploads) = 1
        /\ GotFailure

\* C13, amended: no generate_dashboard call attempts the upload more than
\* once; when the upload raises it was attempted exactly once, when the
\* render raises it was not attempted at all and no file was written, and
\* in both cases the caller receives the failure result, never a location.
C13_NeverRetried ==
    InDashboard =>
        /\ Len(io.uploads) <= 1
        /\ UploadRaised => Len(io.uploads) = 1 /\ GotFailure
        /\ RenderRaised =>
              /\ io.uploads = << >>
              /\ io.files = {}
              /\ GotFailure

\* An upload raised and the call returned the failure result.
C13_Witness ==
    /\ UploadRaised
    /\ Len(io.uploads) = 1
    /\ GotFailure

(***************************************************************************)
(* C14: the order of the stages of generate_dashboard                      *)
(***************************************************************************)
\* The place of a query in one pass of the loop over the timeframes: the
\* candle queries, then the zone queries, then the volume query.
StageRank(kind) ==
    CASE kind = "symbol" -> 0
      [] kind = "probe" -> 1
      [] kind \in {"view", "stride", "bucket"} -> 2
      [] kind = "timeframe" -> 3
      [] kind = "zones" -> 4
      [] kind = "volume" -> 5

\* The call is inside _fetch_dashboard_data, or has just left it.
Fetching ==
    pc \in {"connect", "open_cursor", "symbol", "candles_probe",
            "candles_query", "zones_lookup", "zones_query", "volume",
            "tf_end", "close", "fetched"}

\* The publishing stage has started or acted.
Publishing == pc = "publish" \/ io.files # {} \/ io.uploads # << >>

\* The symbol lookup was made and did not resolve the symbol.
SymbolUnresolved ==
    /\ Len(queries) >= 1
    /\ queries[1].kind = "symbol"
    /\ ~queries[1].ok \/ SymbolId(db, call.symbol) = 0

\* C14: within one generate_dashboard call the stages run in the order
\* resolve symbol, fetch, render, publish.  Every candle, zone or volume
\* query comes after a symbol lookup that resolved the symbol; the queries
\* run timeframe by timeframe, candles then zones then volume; nothing is
\* rendered or published while the fetch runs; rendering starts only after
\* the fetch returned data; publishing starts only after the render
\* returned; and when a stage fails (the symbol is not resolved, the fetch
\* returns None, the render raises) no later stage runs.
C14_StageOrder ==
    InDashboard =>
        /\ \A i \in 1..Len(queries) :
              queries[i].kind # "symbol" =>
                  /\ i > 1
                  /\ queries[1].kind = "symbol" /\ queries[1].ok
                  /\ symbol_id # 0
                  /\ symbol_id = SymbolId(db, call.symbol)
        /\ \A i, j \in 1..Len(queries) :
              i < j =>
                  \/ queries[i].tf < queries[j].tf
                  \/ /\ queries[i].tf = queries[j].tf
                     /\ StageRank(queries[i].kind) < StageRank(queries[j].kind)
        /\ Fetching => ~io.rendered /\ ~Publishing /\ ~result.returned
        /\ (pc = "render" \/ io.rendered) =>
              /\ ~dashboard_data.none
              /\ FetchReturned
        /\ Publishing => io.rendered
        /\ SymbolUnresolved =>
              Len(queries) = 1 /\ ~io.rendered /\ ~Publishing
        /\ (~Fetching /\ dashboard_data.none) =>
              ~io.rendered /\ ~Publishing /\ pc # "render"
        /\ RenderRaised => ~Publishing

\* A call that ran every stage: all three kinds of query after the symbol
\* lookup, then the render, then the publication.
C14_Witness ==
    /\ call.kind = "dashboard"
    /\ GaveLocation
    /\ io.rendered
    /\ \E i, j, k \in 2..Len(queries) :
          /\ i < j /\ j < k
          /\ StageRank(queries[i].kind) = 2
          /\ queries[j].kind = "zones"
          /\ queries[k].kind = "volume"

(***************************************************************************)
(* C15: nulls in the fetched records                                       *)
(***************************************************************************)
\* No candle of the list has a null price or volume.
CandlesWhole ==
    \A i \in DOMAIN cur.candles :
        LET c == cur.candles[i]
        IN  /\ ~IsNull(c.open) /\ ~IsNull(c.high)
            /\ ~IsNull(c.low) /\ ~IsNull(c.close)
            /\ ~IsNull(c.volume)

\* No zone of the list has a null price, score or flag.
ZonesWhole ==
    \A i \in DOMAIN cur.zones :
        LET z == cur.zones[i]
        IN  /\ ~IsNull(z.bottom_price) /\ ~IsNull(z.top_price)
            /\ ~IsNull(z.zone_score) /\ ~IsNull(z.is_broken)

\* No node of the list has a null price, volume or flag.
NodesWhole ==
    \A i \in DOMAIN cur.volume_profile :
        LET n == cur.volume_profile[i]
        IN  /\ ~IsNull(n.price) /\ ~IsNull(n.dollar_volume)
            /\ ~IsNull(n.is_hvn) /\ ~IsNull(n.is_lvn)

\* C15: no record in any list a fetcher returns has a null price or
\* volume, for candles, zones and volume-profile nodes alike, and a stored
\* row with a null field still appears in the result: when the candle
\* query is answered and rows match it the candle list is not empty, and
\* when the zone queries are answered and zones of the symbol and
\* timeframe are stored the zone list is not empty.
C15_NullsCoerced ==
    /\ CandlesWhole /\ ZonesWhole /\ NodesWhole
    /\ (CandlesFetched /\ LastQuery.ok /\ MatchingRows # {}) =>
          cur.candles # << >>
    /\ (HelperDone("zones") /\ ZonesAnswered /\ Candidates # {}) =>
          cur.zones # << >>

(***************************************************************************)
(* C16: too few candles for a chart                                        *)
(***************************************************************************)
\* The chart generator is over, by a return or by an exception.
ChartOver == InChart /\ pc = "done"

\* The generator returned (None, None), wrote no file and did not raise.
NoChartProduced ==
    /\ result.returned /\ ~result.raised
    /\ result.url = NoUrl /\ result.png = NoUrl
    /\ io.files = {}

\* C16 as stated: a chart generator, generate_price_action_chart or
\* generate_zone_alert_chart, that receives fewer than 10 candles from the
\* fetcher returns (None, None), writes no file and does not raise.
C16_FewerThanTen ==
    (ChartOver /\ Len(cur.candles) < MinCandles) => NoChartProduced

\* C16, amended: generate_price_action_chart returns (None, None), writes
\* no file and does not raise when it receives fewer than 10 candles;
\* generate_zone_alert_chart does so only when it receives no candle at
\* all, and with one to nine candles it goes on to draw the chart: what it
\* returns then is a path, never (None, None).
C16_InsufficientData ==
    ChartOver =>
        /\ (call.kind = "price_action" /\ Len(cur.candles) < MinCandles) =>
              NoChartProduced
        /\ (call.kind = "zone_alert" /\ Len(cur.candles) = 0) =>
              NoChartProduced
        /\ (call.kind = "zone_alert" /\ Len(cur.candles) > 0
               /\ result.returned) =>
              result.url # NoUrl /\ result.url \in io.files

\* generate_price_action_chart received some candles, fewer than 10, and
\* returned (None, None).
C16_Witness ==
    /\ ChartOver
    /\ call.kind = "price_action"
    /\ Len(cur.candles) > 0 /\ Len(cur.candles) < MinCandles
    /\ NoChartProduced

(***************************************************************************)
(* C17: the thumbnail is best-effort                                       *)
(***************************************************************************)
\* The HTML chart of the call has been written.
HtmlWritten == HtmlPath(call.kind, call.symbol) \in io.files

\* C17: when the rasterizing dependency is unavailable, a chart generator
\* that has written its HTML chart, generate_zone_alert_chart or
\* generate_price_action_chart, returns the HTML path with a null
\* thumbnail, does not raise, and the HTML file is still there.
C17_BestEffort ==
    (ChartOver /\ HtmlWritten /\ ~call.rasterizer) =>
        /\ result.returned /\ ~result.raised
        /\ result.url = HtmlPath(call.kind, call.symbol)
        /\ result.png = NoUrl

(***************************************************************************)
(* C18: the configuration of a generator                                   *)
(***************************************************************************)
\* A generator exists: the one the call was made on, or the one the batch
\* constructed.
HasGenerator ==
    call.kind \in {"dashboard", "candles", "zones", "volume"}
        \/ batch.constructed

\* C18: the configuration of a generator is fixed at construction and
\* never mutated.  Every step of generate_dashboard, _fetch_dashboard_data,
\* _fetch_candles, _fetch_zones, _fetch_volume_profile and _render_html,
\* whether it succeeds or fails, leaves timeframes, lookback_days_map,
\* market_type, schema, skip_upload and blob_manager as they were (the only
\* step that sets them is the construction of the batch's generator), so
\* a generator always carries the tables of its market as __init__ made
\* them, in the first call of a batch and in every later one.
C18_ConfigFixed ==
    /\ [](HasGenerator =>
             /\ self.timeframes = Timeframes(self.market_type)
             /\ self.lookback_days_map = LookbackDaysMap(self.market_type)
             /\ self.schema = self.market_type)
    /\ [][pc # "batch_construct" => self' = self]_vars

\* A batch whose generator has served two generate_dashboard calls, one
\* that failed and one that gave a location, and still has its tables.
C18_Witness ==
    /\ call.kind = "batch"
    /\ Len(batch.returns) >= 2
    /\ \E i, j \in DOMAIN batch.returns :
          batch.returns[i].url = NoUrl /\ batch.returns[j].url # NoUrl
    /\ self = NewGenerator("stocks", call.skip_upload)

(***************************************************************************)
(* C19: the flag generate_dashboard returns                                *)
(***************************************************************************)
\* The dashboard was uploaded to remote storage in this call.
Uploaded == \E i \in DOMAIN io.uploads : io.uploads[i].ok

\* C19: generate_dashboard returns (dashboard_url, was_uploaded) with
\* was_uploaded true exactly when the dashboard was uploaded to remote
\* storage in that call; when the document was saved locally or nothing
\* was produced, was_uploaded is false.
C19_FlagMeansUploaded ==
    (InDashboard /\ result.returned) => (result.flag <=> Uploaded)

(***************************************************************************)
(* C20: the files behind the paths a chart generator returns               *)
(***************************************************************************)
\* C20: whenever generate_zone_alert_chart or generate_price_action_chart
\* returns a png_path that is not None, a PNG file was written at that
\* path during the call, and an html_path that is not None names an HTML
\* file written during the call.
C20_ThumbnailWritten ==
    (InChart /\ result.returned) =>
        /\ result.png # NoUrl => result.png \in io.files
        /\ result.url # NoUrl => result.url \in io.files

(***************************************************************************)
(* C21: the fallback queries of _fetch_candles                             *)
(***************************************************************************)
\* The candle query was answered and every base row it matched has its
\* four prices, so that the rows convert.
FallbackAnswered(kind) ==
    /\ CandlesFetched
    /\ ~InChart
    /\ LastQuery.kind = kind
    /\ LastQuery.ok
    /\ \A r \in MatchingRows :
          /\ ~IsNull(r.open) /\ ~IsNull(r.high)
          /\ ~IsNull(r.low) /\ ~IsNull(r.close)

\* The base minute rows in [start, end] of the symbol.
BaseRows ==
    {r \in db.candles :
        /\ r.source = "minute_aggregates"
        /\ r.symbol_id = symbol_id
        /\ r.timestamp >= LastQuery.lo
        /\ r.timestamp <= LastQuery.hi}

\* A base row as a candle, its values unchanged (a missing volume reads 0).
AsCandle(r) ==
    [time |-> EpochOf(r.timestamp), open |-> r.open, high |-> r.high,
     low |-> r.low, close |-> r.close,
     volume |-> IF IsNull(r.volume) THEN 0 ELSE r.volume]

\* Stride sampling: the base rows on a minute of the hour divisible by
\* the timeframe.
StrideReference ==
    {AsCandle(r) : r \in {q \in BaseRows :
                             (q.timestamp % 60) % TfMinutes = 0}}

\* The start of the time bucket of width TfMinutes that holds tick t.
BucketStart(t) == (t \div TfMinutes) * TfMinutes

BucketsOf(rows) == {BucketStart(r.timestamp) : r \in rows}

RowsOfBucket(b) == {r \in BaseRows : BucketStart(r.timestamp) = b}

Earliest(rows) ==
    {r \in rows : \A q \in rows : r.timestamp <= q.timestamp}

Latest(rows) ==
    {r \in rows : \A q \in rows : r.timestamp >= q.timestamp}

\* Candle c is the aggregate of bucket b: open of an earliest row, highest
\* high, lowest low, close of a latest row, sum of the volumes.
AggregateOf(c, b) ==
    LET rows == RowsOfBucket(b)
    IN  /\ c.time = EpochOf(b)
        /\ c.open \in {r.open : r \in Earliest(rows)}
        /\ \A r \in rows : c.high >= r.high
        /\ c.high \in {r.high : r \in rows}
        /\ \A r \in rows : c.low <= r.low
        /\ c.low \in {r.low : r \in rows}
        /\ c.close \in {r.close : r \in Latest(rows)}
        /\ c.volume = SetSum(rows, [r \in rows |->
                                      IF IsNull(r.volume) THEN 0
                                      ELSE r.volume])

\* C21: the fallback queries of _fetch_candles match their reference
\* operators over the base minute rows in [start, end].  For a timeframe
\* of at most 15 minutes an answered query gives exactly the base rows
\* whose minute of the hour is divisible by the timeframe, one candle a
\* row, each with its own open, high, low, close and volume.  For a
\* timeframe above 15 minutes it gives one candle per time bucket, with
\* the open of the earliest row of the bucket, the highest high, the
\* lowest low, the close of the latest row and the sum of the volumes.
C21_FallbackQueries ==
    /\ (CandlesFetched /\ ~InChart /\ LastQuery.kind = "stride") =>
          TfMinutes <= 15
    /\ (CandlesFetched /\ ~InChart /\ LastQuery.kind = "bucket") =>
          TfMinutes > 15
    /\ FallbackAnswered("stride") =>
          /\ Range(cur.candles) = StrideReference
          /\ Len(cur.candles) = Cardinality(StrideReference)
    /\ FallbackAnswered("bucket") =>
          /\ Len(cur.candles) = Cardinality(BucketsOf(BaseRows))
          /\ \A b \in BucketsOf(BaseRows) :
                \E i \in DOMAIN cur.candles : AggregateOf(cur.candles[i], b)

\* The 20-minute aggregation was answered with several candles, one of
\* them made of more than one base row.
C21_Witness ==
    /\ FallbackAnswered("bucket")
    /\ TfMinutes = 20
    /\ Len(cur.candles) > 2
    /\ \E b \in BucketsOf(BaseRows) : Cardinality(RowsOfBucket(b)) > 2

(***************************************************************************)
(* C22: the direction of the start-time padding                            *)
(***************************************************************************)
\* C22: the padding only ever shows context before the zone's formation:
\* every query of _fetch_chart_data starts at or before the start time it
\* was asked for, and at or before the end time, so the requested start
\* lies inside the queried range.
C22_PaddedBeforeStart ==
    InChart =>
        \A i \in CandleQueries :
            /\ queries[i].lo <= RequestedStart(queries[i])
            /\ queries[i].lo <= RequestedEnd(queries[i])
            /\ RequestedStart(queries[i]) <= queries[i].hi

(***************************************************************************)
(* C23: a query error inside a fetch helper                                *)
(***************************************************************************)
\* The timeframes of the loop whose iteration is over.
DoneTimeframes == {t \in 1..Len(LoopTimeframes(self.market_type)) : t < tfIdx}

\* The queries of kind k logged for timeframe t.
QueriesOf(t, kinds) ==
    {i \in DOMAIN queries : queries[i].tf = t /\ queries[i].kind \in kinds}

\* The bucket stored for timeframe t.
StoredBucket(t) == dashboard_data.timeframes[LabelAt(t)]

\* C23: a query error raised inside _fetch_candles, _fetch_zones or
\* _fetch_volume_profile is caught inside the helper, which returns the
\* empty list, and never reaches the per-timeframe handler of
\* _fetch_dashboard_data: no helper propagates, every query of the call
\* runs on the one cursor of the one connection, which is never rolled
\* back or replaced, every timeframe whose iteration is over had its
\* candle query, its timeframe lookup and its volume query whatever
\* raised before them, and its bucket holds the empty list for the helper
\* whose query raised next to what the other helpers returned.
C23_ErrorsAbsorbed ==
    (InDashboard /\ ~dashboard_data.none) =>
        /\ ~cur.propagated
        /\ Len(conns) = 1
        /\ conns[1].rollbacks = 0
        /\ \A i \in DOMAIN queries : queries[i].conn = 1
        /\ \A t \in DoneTimeframes :
              /\ Cardinality(QueriesOf(t, {"view", "stride", "bucket"})) = 1
              /\ Cardinality(QueriesOf(t, {"timeframe"})) = 1
              /\ Cardinality(QueriesOf(t, {"volume"})) = 1
              /\ LabelAt(t) \in DOMAIN dashboard_data.timeframes
              /\ (\E i \in QueriesOf(t, {"view", "stride", "bucket"}) :
                     ~queries[i].ok) =>
                    StoredBucket(t).candles = << >>
              /\ (\E i \in QueriesOf(t, {"timeframe", "zones"}) :
                     ~queries[i].ok) =>
                    StoredBucket(t).zones = << >>
              /\ (\E i \in QueriesOf(t, {"volume"}) : ~queries[i].ok) =>
                    StoredBucket(t).volume_profile = << >>

\* The candle query of the first timeframe raised; its zone and volume
\* queries ran after it on the same cursor and the bucket stored has no
\* candles but has zones and volume nodes.
C23_Witness ==
    /\ InDashboard /\ ~dashboard_data.none
    /\ 1 \in DoneTimeframes
    /\ \E i \in QueriesOf(1, {"view", "stride", "bucket"}) :
          /\ ~queries[i].ok
          /\ \E j \in QueriesOf(1, {"zones"}) : j > i /\ queries[j].ok
          /\ \E j \in QueriesOf(1, {"volume"}) : j > i /\ queries[j].ok
    /\ StoredBucket(1).candles = << >>
    /\ StoredBucket(1).zones # << >>
    /\ StoredBucket(1).volume_profile # << >>

(***************************************************************************)
(* C24: the lookback_days argument                                         *)
(***************************************************************************)
\* The start of timeframe t's range as the generator's table alone gives
\* it: the clock less lookback_days_map[label] days.
TableStart(t) ==
    now - LookbackDaysMap(self.market_type)[LabelAt(t)] * MinutesPerDay

\* The rows timeframe t's candle query i returns for that range.
TableCandleRows(t, i) ==
    CandleQueryRows(queries[i].kind, symbol_id,
                    [lo |-> TableStart(t), hi |-> now],
                    Timeframes(self.market_type)[LabelAt(t)])

\* The rows timeframe t's volume query returns for that range.
TableVolumeRows(t) ==
    VolumeQueryRows(db, symbol_id,
                    VolumeParams(self.schema, TableStart(t), now))

FlatZoneWithCandles ==
    /\ call.kind = "zone_alert"
    /\ call.zone_top = call.zone_bottom
    /\ pc \in {"chart_html", "chart_png", "done"}
    /\ cur.candles # << >>

\* C25: for a zone with zone_top = zone_bottom and a candle list that is
\* not empty, generate_zone_alert_chart does not return a result: the
\* penetration computation divides by the zone height, the call raises
\* before any HTML file is written and the thumbnail step is never
\* reached; it returns neither (None, None) nor a chart.
C25_FlatZoneRaises ==
    FlatZoneWithCandles =>
        /\ pc # "chart_png"
        /\ ~result.returned
        /\ io.files = {}
        /\ io.penetration = << >>
        /\ pc = "done" => result.raised

\* A call for a flat zone that had candles is over: it raised and wrote
\* nothing.
C25_Witness ==
    /\ FlatZoneWithCandles
    /\ pc = "done"
    /\ result.raised
    /\ io.files = {}

(***************************************************************************)
(* C26: what generate_dashboard gives its caller                           *)
(***************************************************************************)
\* The fetch ended on an exception: no connection or no cursor could be
\* had, or the symbol lookup raised.
FetchRaised ==
    \/ conns = << >>
    \/ cursor = 0
    \/ Len(queries) >= 1 /\ ~queries[1].ok

\* The local write raised: the document was rendered in local mode and
\* there is no file.
WriteRaised == self.skip_upload /\ io.rendered /\ io.files = {}

ListingAcquired == batch.listing # << >>

\* The listing connection, and its cursor if it was acquired, are closed,
\* each exactly once.
ListingReleased ==
    LET l == batch.listing[1]
    IN  /\ ~l.open /\ l.closes = 1
        /\ IF l.cursor = "none" THEN l.cursor_closes = 0
           ELSE l.cursor = "closed" /\ l.cursor_closes = 1

\* The batch is past the listing: it constructs its generator, runs the
\* loop or is inside a generate_dashboard call.
PastListing ==
    /\ call.kind = "batch"
    /\ pc \notin {"batch_connect", "batch_cursor", "batch_list", "done"}

\* C27: in generate_all_stock_dashboards the connection and the cursor
\* used to list the symbols are closed before the first generate_dashboard
\* call starts, and on every exit path of the function (no connection, no
\* cursor, the listing query fails, the construction of the generator
\* fails, normal completion) each of them is closed exactly once if it
\* was acquired: never left open and never closed twice.
C27_ListingReleased ==
    call.kind = "batch" =>
        /\ Len(batch.listing) <= 1
        /\ ListingAcquired =>
              /\ batch.listing[1].closes <= 1
              /\ batch.listing[1].cursor_closes <= 1
        /\ PastListing => ListingAcquired /\ ListingReleased
        /\ batch.attempted # << >> => ListingAcquired /\ ListingReleased
        /\ pc = "done" => batch.returned
        /\ (batch.returned /\ ListingAcquired) => ListingReleased

\* The listing query raised on a database that has symbols: the function
\* is over with no generator constructed, and the finally clause closed
\* the cursor and the connection once each.
C27_Witness ==
    /\ call.kind = "batch"
    /\ batch.returned
    /\ ~batch.constructed
    /\ batch.symbols = << >>
    /\ ListSymbols(db) # << >>
    /\ ListingAcquired
    /\ batch.listing[1].cursor = "closed"
    /\ ListingReleased
====
